---------------------------- MODULE Spec2Model ----------------------------
(***************************************************************************)
(* A model of the CRM API (apps/api): the relational tables, and one       *)
(* action per controller method.  Every action stands for one HTTP request *)
(* handled to completion (registration, whose statements interleave with   *)
(* those of other requests, is split into its statements).  The variable   *)
(* resp holds the request just handled and the response sent for it.       *)
(***************************************************************************)
EXTENDS Integers, FiniteSets, Sequences, TLC

(* ------------------------------ bounds -------------------------------- *)
\* Rows a table may hold (ids are drawn from 1..Max, never reused).
MaxCustomers == 2
MaxDeals == 1
MaxTasks == 1
MaxContacts == 1
\* Registration requests that may be in flight at once, and in all.
MaxRegs == 2
MaxRegistrations == 2
\* Tokens the clients may hold.
MaxTokens == 4
\* the writes of one row: "updatedAt" = NOW() is a timestamp later than the row's
\* last one, the n-th timestamp of a row being n
MaxUpdatedAt == 3
\* Contact-history entries stored when a client pages through the listing.
PageRows == 3
\* File names a client may attach to one contact-history entry.
MaxAttachments == 2

(* --------------------------- program constants ------------------------ *)
\* AppError subclasses: statusCode and code
ValidationStatus == 400
UnauthorizedStatus == 401
NotFoundStatus == 404
ConflictStatus == 409
InternalStatus == 500
OkStatus == 200
CreatedStatus == 201
\* No response written yet (a request between two of its statements).
PendingStatus == 0

\* SQL NULL in an id or timestamp column; ids and timestamps are positive.
NullId == 0
NullTs == 0
\* The value NOW() stores.
NowTs == 1
\* JavaScript undefined / null in a string position.
NullStr == "<null>"

VARIABLES
    organizations,  \* id -> [name]
    users,          \* id -> [email, organizationId, role, isActive, lastLoginAt]
    customers,      \* id -> [organizationId, email, firstName, deletedAt, createdBy]
    pipelines,      \* id -> [organizationId, stages, isDefault]
    deals,          \* id -> [customerId, pipelineId, stageId, probability, title, ownerId]
    tasks,          \* id -> [title, status, assigneeId, relatedCustomerId, relatedDealId, completedAt]
    contacts,       \* id -> [customerId, type, body, duration, createdAt, createdBy]
    nextId,         \* table -> the next id gen_random_uuid() hands out
    regs,           \* requests in flight between two statements: request -> its locals
    issued,         \* the tokens handed out to clients
    expired,        \* those of them whose exp has passed
    env,            \* process.env as envSchema parsed it at startup
    resp            \* the request last handled and its response

db == <<organizations, users, customers, pipelines, deals, tasks, contacts>>
vars == <<organizations, users, customers, pipelines, deals, tasks, contacts,
          nextId, regs, issued, expired, env, resp>>

(* ------------------------------ helpers ------------------------------- *)
Has(p, k) == k \in DOMAIN p

\* String.prototype.toLowerCase on the e-mail addresses of the model.
toLowerCase(e) ==
    CASE e = "John@X.com" -> "john@x.com"
      [] e = "Amy@X.com" -> "amy@x.com"
      [] e = "Admin@Demo.com" -> "admin@demo.com"
      [] OTHER -> e

\* successResponse(data) with the status the controller sets.
successResponse(op, caller, id, body, status, data) ==
    [op |-> op, caller |-> caller, id |-> id, body |-> body,
     status |-> status, success |-> TRUE, code |-> "OK", data |-> data]

\* errorHandler's envelope for a thrown AppError (or a 500 for any other error).
errorResponse(op, caller, id, body, status, code) ==
    [op |-> op, caller |-> caller, id |-> id, body |-> body,
     status |-> status, success |-> FALSE, code |-> code, data |-> {}]

NotFoundError(op, caller, id, body) ==
    errorResponse(op, caller, id, body, NotFoundStatus, "NOT_FOUND")
ValidationError(op, caller, id, body) ==
    errorResponse(op, caller, id, body, ValidationStatus, "VALIDATION_ERROR")
UnauthorizedError(op, caller, id, body) ==
    errorResponse(op, caller, id, body, UnauthorizedStatus, "UNAUTHORIZED")
ConflictError(op, caller, id, body) ==
    errorResponse(op, caller, id, body, ConflictStatus, "CONFLICT")
InternalError(op, caller, id, body) ==
    errorResponse(op, caller, id, body, InternalStatus, "INTERNAL_ERROR")

\* A lookup that falls back to the first organization when the user row is gone.
userRowOrFirst(u) == IF u \in DOMAIN users THEN users[u].organizationId ELSE 1

\* SELECT "organizationId" FROM users WHERE id = $1 (NullId: no such user)
userRow(u) == IF u \in DOMAIN users THEN users[u].organizationId ELSE NullId

\* p with the keys of q overriding (the SET list of a dynamic UPDATE)
Merge(row, set) == [k \in DOMAIN row |-> IF k \in DOMAIN set THEN set[k] ELSE row[k]]

\* ..., "updatedAt" = NOW()
Touch(row) == [row EXCEPT !.updatedAt = @ + 1]

(* ------------------------------ customers ----------------------------- *)
\* The columns customer queries return.
CustomerView(c) ==
    [id |-> c, organizationId |-> customers[c].organizationId,
     email |-> customers[c].email, firstName |-> customers[c].firstName,
     updatedAt |-> customers[c].updatedAt]

\* A customer query without its "deletedAt" IS NULL condition.
StoredCustomers(org) == {c \in DOMAIN customers : customers[c].organizationId = org}

\* ... FROM customers WHERE "organizationId" = $1 AND "deletedAt" IS NULL
LiveCustomers(org) ==
    {c \in DOMAIN customers :
        customers[c].organizationId = org /\ customers[c].deletedAt = NullTs}

CustomerGetAll(u) ==
    LET org == userRow(u) IN
    /\ resp' = IF org = NullId
               THEN NotFoundError("customer.getAll", u, NullId, << >>)
               ELSE successResponse("customer.getAll", u, NullId, << >>, OkStatus,
                                    {CustomerView(c) : c \in LiveCustomers(org)})
    /\ UNCHANGED <<db, nextId, regs, issued, expired, env>>

CustomerGetById(u, id) ==
    LET org == userRow(u) IN
    /\ resp' = IF org = NullId \/ id \notin LiveCustomers(org)
               THEN NotFoundError("customer.getById", u, id, << >>)
               ELSE successResponse("customer.getById", u, id, << >>, OkStatus,
                                    {CustomerView(id)})
    /\ UNCHANGED <<db, nextId, regs, issued, expired, env>>

\* body: firstName, email (required by createCustomerSchema)
CustomerCreate(u, body) ==
    LET org == userRow(u)
        email == toLowerCase(body.email)
        id == nextId.customers
    IN
    IF org = NullId
    THEN /\ resp' = NotFoundError("customer.create", u, NullId, body)
         /\ UNCHANGED <<db, nextId, regs, issued, expired, env>>
    ELSE IF \E c \in LiveCustomers(org) : customers[c].email = email
    THEN /\ resp' = ValidationError("customer.create", u, NullId, body)
         /\ UNCHANGED <<db, nextId, regs, issued, expired, env>>
    ELSE IF \E c \in DOMAIN customers : customers[c].email = email
    THEN \* customers_email_key: the INSERT fails, any other error is a 500
         /\ resp' = InternalError("customer.create", u, NullId, body)
         /\ UNCHANGED <<db, nextId, regs, issued, expired, env>>
    ELSE /\ id <= MaxCustomers
         /\ customers' = customers @@
                (id :> [organizationId |-> org, email |-> email,
                        firstName |-> body.firstName, deletedAt |-> NullTs,
                        createdBy |-> u, updatedAt |-> NowTs])
         /\ nextId' = [nextId EXCEPT !.customers = id + 1]
         /\ resp' = successResponse("customer.create", u, id, body, CreatedStatus,
                       {[id |-> id, organizationId |-> org, email |-> email,
                         firstName |-> body.firstName, updatedAt |-> NowTs]})
         /\ UNCHANGED <<organizations, users, pipelines, deals, tasks, contacts, regs, issued, expired, env>>

\* A SET list that holds "updatedAt" = NOW() before its length is looked at.
CustomerUpdatesTimestampFirst(body) ==
    [k \in (DOMAIN body \cap {"firstName", "email"}) \cup {"updatedAt"} |->
        IF k = "updatedAt" THEN NowTs
        ELSE IF k = "email" THEN toLowerCase(body.email) ELSE body[k]]

\* The SET list of the dynamic UPDATE: one column per key present in the body.
CustomerUpdates(body) ==
    [k \in DOMAIN body \cap {"firstName", "email"} |->
        IF k = "email" THEN toLowerCase(body.email) ELSE body[k]]

CustomerUpdate(u, id, body) ==
    LET org == userRow(u)
        set == CustomerUpdates(body)
    IN
    IF org = NullId \/ id \notin LiveCustomers(org)
    THEN /\ resp' = NotFoundError("customer.update", u, id, body)
         /\ UNCHANGED <<db, nextId, regs, issued, expired, env>>
    ELSE IF /\ Has(body, "email")
            /\ toLowerCase(body.email) # customers[id].email
            /\ \E c \in LiveCustomers(org) \ {id} :
                   customers[c].email = toLowerCase(body.email)
    THEN /\ resp' = ValidationError("customer.update", u, id, body)
         /\ UNCHANGED <<db, nextId, regs, issued, expired, env>>
    ELSE IF DOMAIN set = {}
    THEN /\ resp' = successResponse("customer.update", u, id, body, OkStatus,
                                    {CustomerView(id)})
         /\ UNCHANGED <<db, nextId, regs, issued, expired, env>>
    ELSE IF /\ Has(set, "email")
            /\ \E c \in DOMAIN customers \ {id} : customers[c].email = set.email
    THEN \* customers_email_key
         /\ resp' = InternalError("customer.update", u, id, body)
         /\ UNCHANGED <<db, nextId, regs, issued, expired, env>>
    ELSE /\ customers[id].updatedAt < MaxUpdatedAt
         /\ customers' = [customers EXCEPT ![id] = Touch(Merge(@, set))]
         /\ resp' = successResponse("customer.update", u, id, body, OkStatus,
                       {[id |-> id, organizationId |-> org,
                         email |-> Merge(customers[id], set).email,
                         firstName |-> Merge(customers[id], set).firstName,
                         updatedAt |-> customers[id].updatedAt + 1]})
         /\ UNCHANGED <<organizations, users, pipelines, deals, tasks, contacts,
                        nextId, regs, issued, expired, env>>

\* Soft delete: UPDATE customers SET "deletedAt" = NOW() ...
CustomerDelete(u, id) ==
    LET org == userRow(u) IN
    IF org = NullId \/ id \notin LiveCustomers(org)
    THEN /\ resp' = NotFoundError("customer.delete", u, id, << >>)
         /\ UNCHANGED <<db, nextId, regs, issued, expired, env>>
    ELSE /\ customers[id].updatedAt < MaxUpdatedAt
         /\ customers' = [customers EXCEPT ![id] = Touch([@ EXCEPT !.deletedAt = NowTs])]
         /\ resp' = successResponse("customer.delete", u, id, << >>, OkStatus, {})
         /\ UNCHANGED <<organizations, users, pipelines, deals, tasks, contacts,
                        nextId, regs, issued, expired, env>>

(* ------------------------------ pipelines ----------------------------- *)
PipelineView(p) ==
    [id |-> p, organizationId |-> pipelines[p].organizationId,
     stages |-> pipelines[p].stages, isDefault |-> pipelines[p].isDefault]

OrgPipelines(org) == {p \in DOMAIN pipelines : pipelines[p].organizationId = org}

PipelineGetAll(u) ==
    LET org == userRow(u) IN
    /\ resp' = IF org = NullId
               THEN NotFoundError("pipeline.getAll", u, NullId, << >>)
               ELSE successResponse("pipeline.getAll", u, NullId, << >>, OkStatus,
                                    {PipelineView(p) : p \in OrgPipelines(org)})
    /\ UNCHANGED <<db, nextId, regs, issued, expired, env>>

PipelineGetById(u, id) ==
    LET org == userRow(u) IN
    /\ resp' = IF org = NullId \/ id \notin OrgPipelines(org)
               THEN NotFoundError("pipeline.getById", u, id, << >>)
               ELSE successResponse("pipeline.getById", u, id, << >>, OkStatus,
                                    {PipelineView(id)})
    /\ UNCHANGED <<db, nextId, regs, issued, expired, env>>

\* WHERE "organizationId" = $1 AND "isDefault" = true LIMIT 1, else the oldest
\* pipeline of the organization (ids grow with createdAt), else NotFound.
\* LIMIT 1 without ORDER BY: any of the default pipelines may be the one returned.
PipelineGetDefault(u) ==
    LET org == userRow(u)
        defaults == {p \in OrgPipelines(org) : pipelines[p].isDefault}
        first == {p \in OrgPipelines(org) : \A q \in OrgPipelines(org) : p <= q}
    IN
    /\ IF org = NullId \/ OrgPipelines(org) = {}
       THEN resp' = NotFoundError("pipeline.getDefault", u, NullId, << >>)
       ELSE \E p \in (IF defaults # {} THEN defaults ELSE first) :
               resp' = successResponse("pipeline.getDefault", u, NullId, << >>,
                                       OkStatus, {PipelineView(p)})
    /\ UNCHANGED <<db, nextId, regs, issued, expired, env>>

(* -------------------------------- deals ------------------------------- *)
\* A stage check that looks the id up in every pipeline, not in the deal's own.
stageExistsInAnyPipeline(stages, stageId) ==
    \E p \in DOMAIN pipelines :
        \E i \in DOMAIN pipelines[p].stages : pipelines[p].stages[i].id = stageId

\* A stage check that accepts every id.
stageExistsAlways(stages, stageId) == TRUE

\* stages.some((s) => s.id === stageId)
stageExists(stages, stageId) == \E i \in DOMAIN stages : stages[i].id = stageId

\* The deal with the columns joined from its customer (DealWithRelations).
DealView(d) ==
    [id |-> d, customerId |-> deals[d].customerId, pipelineId |-> deals[d].pipelineId,
     stageId |-> deals[d].stageId, probability |-> deals[d].probability,
     title |-> deals[d].title, ownerId |-> deals[d].ownerId,
     updatedAt |-> deals[d].updatedAt,
     customerFirstName |-> customers[deals[d].customerId].firstName,
     customerEmail |-> customers[deals[d].customerId].email]

\* A deal query that leaves the organization out of its WHERE clause.
AnyOrgDeals(org) == DOMAIN deals

\* FROM deals d INNER JOIN customers c ... WHERE c."organizationId" = $1
OrgDeals(org) ==
    {d \in DOMAIN deals : customers[deals[d].customerId].organizationId = org}

\* ... AND c."deletedAt" IS NULL
VisibleDeals(org) ==
    {d \in OrgDeals(org) : customers[deals[d].customerId].deletedAt = NullTs}

\* createDealSchema / updateDealSchema: probability: z.number().min(0).max(100)
dealSchema(body) ==
    Has(body, "probability") => (body.probability >= 0 /\ body.probability <= 100)

\* filter: the query parameters pipelineId, stageId, customerId that are present
DealGetAll(u, filter) ==
    LET org == userRow(u)
        Match(d) ==
            /\ (Has(filter, "pipelineId") => deals[d].pipelineId = filter.pipelineId)
            /\ (Has(filter, "stageId") /\ filter.stageId # ""
                    => deals[d].stageId = filter.stageId)
            /\ (Has(filter, "customerId") => deals[d].customerId = filter.customerId)
    IN
    /\ resp' = IF org = NullId
               THEN NotFoundError("deal.getAll", u, NullId, filter)
               ELSE successResponse("deal.getAll", u, NullId, filter, OkStatus,
                        {DealView(d) : d \in {e \in VisibleDeals(org) : Match(e)}})
    /\ UNCHANGED <<db, nextId, regs, issued, expired, env>>

DealGetById(u, id) ==
    LET org == userRow(u) IN
    /\ resp' = IF org = NullId \/ id \notin VisibleDeals(org)
               THEN NotFoundError("deal.getById", u, id, << >>)
               ELSE successResponse("deal.getById", u, id, << >>, OkStatus,
                                    {DealView(id)})
    /\ UNCHANGED <<db, nextId, regs, issued, expired, env>>

\* A create that inserts the row before it looks at the stage.
DealCreateInsertFirst(u, body) ==
    LET id == nextId.deals
        row == [customerId |-> body.customerId, pipelineId |-> body.pipelineId,
                stageId |-> body.stageId, probability |-> 0,
                title |-> body.title, ownerId |-> u, updatedAt |-> NowTs]
    IN
    /\ id <= MaxDeals
    /\ body.customerId \in LiveCustomers(userRow(u))
    /\ body.pipelineId \in OrgPipelines(userRow(u))
    /\ deals' = deals @@ (id :> row)
    /\ nextId' = [nextId EXCEPT !.deals = id + 1]
    /\ resp' = IF stageExists(pipelines[body.pipelineId].stages, body.stageId)
               THEN successResponse("deal.create", u, id, body, CreatedStatus,
                                    {[id |-> id] @@ row})
               ELSE ValidationError("deal.create", u, NullId, body)
    /\ UNCHANGED <<organizations, users, customers, pipelines, tasks, contacts,
                   regs, issued, expired, env>>

\* body: customerId, pipelineId, stageId, title; probability optional (default 0)
DealCreate(u, body) ==
    LET org == userRow(u)
        id == nextId.deals
        probability == IF Has(body, "probability") THEN body.probability ELSE 0
        row == [customerId |-> body.customerId, pipelineId |-> body.pipelineId,
                stageId |-> body.stageId, probability |-> probability,
                title |-> body.title, ownerId |-> u, updatedAt |-> NowTs]
    IN
    IF ~dealSchema(body)
    THEN /\ resp' = ValidationError("deal.create", u, NullId, body)
         /\ UNCHANGED <<db, nextId, regs, issued, expired, env>>
    ELSE IF org = NullId \/ body.customerId \notin LiveCustomers(org)
                         \/ body.pipelineId \notin OrgPipelines(org)
    THEN /\ resp' = NotFoundError("deal.create", u, NullId, body)
         /\ UNCHANGED <<db, nextId, regs, issued, expired, env>>
    ELSE IF \/ ~stageExists(pipelines[body.pipelineId].stages, body.stageId)
            \/ probability < 0 \/ probability > 100
    THEN /\ resp' = ValidationError("deal.create", u, NullId, body)
         /\ UNCHANGED <<db, nextId, regs, issued, expired, env>>
    ELSE /\ id <= MaxDeals
         /\ deals' = deals @@ (id :> row)
         /\ nextId' = [nextId EXCEPT !.deals = id + 1]
         /\ resp' = successResponse("deal.create", u, id, body, CreatedStatus,
                       {[id |-> id] @@ row @@
                        [customerFirstName |-> customers[body.customerId].firstName,
                         customerEmail |-> customers[body.customerId].email]})
         /\ UNCHANGED <<organizations, users, customers, pipelines, tasks, contacts,
                        regs, issued, expired, env>>

\* A SET list that resets the probability whenever the stage is set.
DealUpdatesResettingProbability(body) ==
    [k \in (DOMAIN body \cap {"title", "probability", "stageId"})
           \cup (IF Has(body, "stageId") THEN {"probability"} ELSE {}) |->
        IF k \in DOMAIN body THEN body[k] ELSE 0]

\* A SET list with a column for every key the request carries.
DealUpdatesAnyKey(body) == body

\* The SET list: one column per key of the body that is not undefined.
DealUpdates(body) == [k \in DOMAIN body \cap {"title", "probability", "stageId"} |-> body[k]]

DealUpdate(u, id, body) ==
    LET org == userRow(u)
        set == DealUpdates(body)
        after == Touch(Merge(deals[id], set))
    IN
    IF ~dealSchema(body)
    THEN /\ resp' = ValidationError("deal.update", u, id, body)
         /\ UNCHANGED <<db, nextId, regs, issued, expired, env>>
    ELSE IF org = NullId \/ id \notin OrgDeals(org)
    THEN /\ resp' = NotFoundError("deal.update", u, id, body)
         /\ UNCHANGED <<db, nextId, regs, issued, expired, env>>
    ELSE IF \/ /\ Has(body, "stageId") /\ body.stageId # ""       \* if (stageId)
               /\ deals[id].pipelineId \in DOMAIN pipelines       \* if (pipeline)
               /\ ~stageExists(pipelines[deals[id].pipelineId].stages, body.stageId)
            \/ /\ Has(body, "probability")
               /\ (body.probability < 0 \/ body.probability > 100)
    THEN /\ resp' = ValidationError("deal.update", u, id, body)
         /\ UNCHANGED <<db, nextId, regs, issued, expired, env>>
    ELSE IF DOMAIN set = {}
    THEN /\ resp' = successResponse("deal.update", u, id, body, OkStatus, {DealView(id)})
         /\ UNCHANGED <<db, nextId, regs, issued, expired, env>>
    ELSE /\ deals[id].updatedAt < MaxUpdatedAt
         /\ deals' = [deals EXCEPT ![id] = after]
         /\ resp' = successResponse("deal.update", u, id, body, OkStatus,
                       {[id |-> id] @@ after @@
                        [customerFirstName |-> customers[after.customerId].firstName,
                         customerEmail |-> customers[after.customerId].email]})
         /\ UNCHANGED <<organizations, users, customers, pipelines, tasks, contacts,
                        nextId, regs, issued, expired, env>>

\* A delete that answers as the code does and leaves the row where it is.
DealDeleteKeepingRow(u, id) ==
    LET org == userRow(u) IN
    /\ resp' = IF org = NullId \/ id \notin OrgDeals(org)
               THEN NotFoundError("deal.delete", u, id, << >>)
               ELSE successResponse("deal.delete", u, id, << >>, OkStatus, {})
    /\ UNCHANGED <<db, nextId, regs, issued, expired, env>>

\* DELETE FROM deals d USING customers c WHERE d.id = $1 AND ... RETURNING d.id
DealDelete(u, id) ==
    LET org == userRow(u) IN
    IF org = NullId \/ id \notin OrgDeals(org)
    THEN /\ resp' = NotFoundError("deal.delete", u, id, << >>)
         /\ UNCHANGED <<db, nextId, regs, issued, expired, env>>
    ELSE /\ deals' = [d \in DOMAIN deals \ {id} |-> deals[d]]
         /\ resp' = successResponse("deal.delete", u, id, << >>, OkStatus, {})
         /\ UNCHANGED <<organizations, users, customers, pipelines, tasks, contacts,
                        nextId, regs, issued, expired, env>>

(* -------------------------------- tasks ------------------------------- *)
\* LEFT JOIN customers c ON t."relatedCustomerId" = c.id: NULL without a customer
\* (no condition on c."deletedAt").
TaskView(t) ==
    [id |-> t, title |-> tasks[t].title, status |-> tasks[t].status,
     assigneeId |-> tasks[t].assigneeId,
     relatedCustomerId |-> tasks[t].relatedCustomerId,
     relatedDealId |-> tasks[t].relatedDealId,
     completedAt |-> tasks[t].completedAt,
     updatedAt |-> tasks[t].updatedAt,
     customerFirstName |->
        IF tasks[t].relatedCustomerId \in DOMAIN customers
        THEN customers[tasks[t].relatedCustomerId].firstName ELSE NullStr]

\* FROM tasks t INNER JOIN users u ON t."assigneeId" = u.id WHERE u."organizationId" = $1
OrgTasks(org) == {t \in DOMAIN tasks : users[tasks[t].assigneeId].organizationId = org}

\* A lookup of the assignee by id alone, whatever the organization.
AllUsers(org) == DOMAIN users

\* SELECT id FROM users WHERE id = $1 AND "organizationId" = $2
OrgUsers(org) == {v \in DOMAIN users : users[v].organizationId = org}

\* z.object(...) strips the keys the schema does not name (completedAt among them).
updateTaskSchema(body) ==
    [k \in DOMAIN body \cap {"title", "status", "assigneeId", "relatedCustomerId",
                             "relatedDealId"} |-> body[k]]

\* filter: the query parameters status, assigneeId, customerId that are present
TaskGetAll(u, filter) ==
    LET org == userRow(u)
        Match(t) ==
            /\ (Has(filter, "status") => tasks[t].status = filter.status)
            /\ (Has(filter, "assigneeId") => tasks[t].assigneeId = filter.assigneeId)
            /\ (Has(filter, "customerId")
                    => tasks[t].relatedCustomerId = filter.customerId)
    IN
    /\ resp' = IF org = NullId
               THEN NotFoundError("task.getAll", u, NullId, filter)
               ELSE successResponse("task.getAll", u, NullId, filter, OkStatus,
                        {TaskView(t) : t \in {x \in OrgTasks(org) : Match(x)}})
    /\ UNCHANGED <<db, nextId, regs, issued, expired, env>>

TaskGetById(u, id) ==
    LET org == userRow(u) IN
    /\ resp' = IF org = NullId \/ id \notin OrgTasks(org)
               THEN NotFoundError("task.getById", u, id, << >>)
               ELSE successResponse("task.getById", u, id, << >>, OkStatus, {TaskView(id)})
    /\ UNCHANGED <<db, nextId, regs, issued, expired, env>>

\* body: title; status, assigneeId, relatedCustomerId, relatedDealId optional
\* (createTaskSchema maps '' and null to undefined / null: NullId here)
TaskCreate(u, body) ==
    LET org == userRow(u)
        id == nextId.tasks
        status == IF Has(body, "status") THEN body.status ELSE "PENDING"
        assigneeId == IF Has(body, "assigneeId") /\ body.assigneeId # NullId
                      THEN body.assigneeId ELSE u
        relatedCustomerId == IF Has(body, "relatedCustomerId")
                             THEN body.relatedCustomerId ELSE NullId
        relatedDealId == IF Has(body, "relatedDealId") THEN body.relatedDealId ELSE NullId
        row == [title |-> body.title, status |-> status, assigneeId |-> assigneeId,
                relatedCustomerId |-> relatedCustomerId,
                relatedDealId |-> relatedDealId,
                completedAt |-> NullTs,      \* VALUES (..., NULL, NULL, NOW(), NOW())
                updatedAt |-> NowTs]
    IN
    IF \/ org = NullId
       \/ assigneeId \notin OrgUsers(org)
       \/ (relatedCustomerId # NullId /\ relatedCustomerId \notin LiveCustomers(org))
    THEN /\ resp' = NotFoundError("task.create", u, NullId, body)
         /\ UNCHANGED <<db, nextId, regs, issued, expired, env>>
    ELSE /\ id <= MaxTasks
         /\ tasks' = tasks @@ (id :> row)
         /\ nextId' = [nextId EXCEPT !.tasks = id + 1]
         /\ resp' = successResponse("task.create", u, id, body, CreatedStatus,
                       {[id |-> id] @@ row @@
                        [customerFirstName |->
                            IF relatedCustomerId \in DOMAIN customers
                            THEN customers[relatedCustomerId].firstName ELSE NullStr]})
         /\ UNCHANGED <<organizations, users, customers, pipelines, deals, contacts,
                        regs, issued, expired, env>>

\* A SET list that sets "completedAt" on COMPLETE and never clears it.
TaskUpdatesNeverClearing(body) ==
    [k \in (DOMAIN body \cap {"title", "status", "assigneeId", "relatedCustomerId",
                               "relatedDealId"})
           \cup (IF Has(body, "status") /\ body.status = "COMPLETE"
                 THEN {"completedAt"} ELSE {}) |->
        IF k = "completedAt" THEN NowTs ELSE body[k]]

\* The SET list: one column per key present, and "completedAt" = NOW() or NULL
\* whenever status is present.
TaskUpdates(body) ==
    [k \in (DOMAIN body \cap {"title", "status", "assigneeId", "relatedCustomerId",
                               "relatedDealId"})
           \cup (IF Has(body, "status") THEN {"completedAt"} ELSE {}) |->
        IF k = "completedAt"
        THEN (IF body.status = "COMPLETE" THEN NowTs ELSE NullTs)
        ELSE body[k]]

TaskUpdate(u, id, rawBody) ==
    LET org == userRow(u)
        body == updateTaskSchema(rawBody)
        set == TaskUpdates(body)
        after == Touch(Merge(tasks[id], set))
    IN
    IF \/ org = NullId
       \/ id \notin OrgTasks(org)
       \/ (Has(body, "assigneeId") /\ body.assigneeId \notin OrgUsers(org))
       \/ /\ Has(body, "relatedCustomerId") /\ body.relatedCustomerId # NullId
          /\ body.relatedCustomerId \notin LiveCustomers(org)
    THEN /\ resp' = NotFoundError("task.update", u, id, rawBody)
         /\ UNCHANGED <<db, nextId, regs, issued, expired, env>>
    ELSE IF DOMAIN set = {}
    THEN /\ resp' = successResponse("task.update", u, id, rawBody, OkStatus, {TaskView(id)})
         /\ UNCHANGED <<db, nextId, regs, issued, expired, env>>
    ELSE /\ tasks[id].updatedAt < MaxUpdatedAt
         /\ tasks' = [tasks EXCEPT ![id] = after]
         /\ resp' = successResponse("task.update", u, id, rawBody, OkStatus,
                       {[id |-> id] @@ after @@
                        [customerFirstName |->
                            IF after.relatedCustomerId \in DOMAIN customers
                            THEN customers[after.relatedCustomerId].firstName
                            ELSE NullStr]})
         /\ UNCHANGED <<organizations, users, customers, pipelines, deals, contacts,
                        nextId, regs, issued, expired, env>>

TaskDelete(u, id) ==
    LET org == userRow(u) IN
    IF org = NullId \/ id \notin OrgTasks(org)
    THEN /\ resp' = NotFoundError("task.delete", u, id, << >>)
         /\ UNCHANGED <<db, nextId, regs, issued, expired, env>>
    ELSE /\ tasks' = [t \in DOMAIN tasks \ {id} |-> tasks[t]]
         /\ resp' = successResponse("task.delete", u, id, << >>, OkStatus, {})
         /\ UNCHANGED <<organizations, users, customers, pipelines, deals, contacts,
                        nextId, regs, issued, expired, env>>

(* --------------------------- contact history -------------------------- *)
(* A string is the sequence of its characters, a TEXT[] value the sequence of
   its elements. *)
RECURSIVE replace(_, _, _)
\* String.prototype.replace with a global pattern of one character
replace(str, ch, by) ==
    IF str = << >> THEN << >>
    ELSE (IF Head(str) = ch THEN by ELSE <<Head(str)>>) \o replace(Tail(str), ch, by)

\* `'${String(val).replace(/'/g, "''")}'`: the SQL string literal of an element
escapedValue(val) == <<"'">> \o replace(val, "'", <<"'", "'">>) \o <<"'">>

RECURSIVE unescaped(_)
\* the text between the quotes of a string literal, '' read as one quote
unescaped(str) ==
    IF str = << >> THEN << >>
    ELSE IF Len(str) >= 2 /\ str[1] = "'" /\ str[2] = "'"
    THEN <<"'">> \o unescaped(Tail(Tail(str)))
    ELSE <<Head(str)>> \o unescaped(Tail(str))

\* PostgreSQL's value of a string literal
StringLiteral(lit) == unescaped(SubSeq(lit, 2, Len(lit) - 1))

\* The value the INSERT stores for ARRAY['..','..']::TEXT[], or ARRAY[]::TEXT[]
attachmentsValue(attachmentsArray) ==
    [i \in 1..Len(attachmentsArray) |-> StringLiteral(escapedValue(attachmentsArray[i]))]

\* PostgreSQL's array_out writes an element between double quotes, with " and \
\* escaped by \, when it is empty or holds a brace, a comma, a double quote, a
\* backslash or white space.
ArrayElementOut(elem) ==
    IF elem = << >> \/ \E i \in 1..Len(elem) : elem[i] \in {"{", "}", ",", "\"", "\\", " "}
    THEN <<"\"">> \o replace(replace(elem, "\\", <<"\\", "\\">>), "\"", <<"\\", "\"">>)
                 \o <<"\"">>
    ELSE elem

RECURSIVE join(_, _)
\* Array.prototype.join
join(arr, sep) ==
    IF arr = << >> THEN << >>
    ELSE IF Len(arr) = 1 THEN arr[1]
    ELSE arr[1] \o sep \o join(Tail(arr), sep)

\* The text PostgreSQL sends for a TEXT[] value: {value1,value2} or {}
array_out(arr) ==
    <<"{">> \o join([i \in 1..Len(arr) |-> ArrayElementOut(arr[i])], <<",">>) \o <<"}">>

RECURSIVE split(_, _)
\* String.prototype.split at a separator of one character
split(str, sep) ==
    IF \A i \in 1..Len(str) : str[i] # sep THEN <<str>>
    ELSE LET i == CHOOSE k \in 1..Len(str) :
                      str[k] = sep /\ \A j \in 1..(k - 1) : str[j] # sep
         IN <<SubSeq(str, 1, i - 1)>> \o split(SubSeq(str, i + 1, Len(str)), sep)

IsNonEmpty(str) == str # << >>

\* types.setTypeParser(1009, ...): what the application reads from a TEXT[] column
setTypeParser1009(val) ==
    IF val = << >> THEN << >>
    ELSE IF val = <<"{", "}">> THEN << >>
    ELSE SelectSeq(split(SubSeq(val, 2, Len(val) - 1), ","), IsNonEmpty)

validTypes == {"CALL", "EMAIL", "MEETING", "NOTE"}

ContactView(c) ==
    [id |-> c, customerId |-> contacts[c].customerId, type |-> contacts[c].type,
     body |-> contacts[c].body, duration |-> contacts[c].duration,
     attachments |-> setTypeParser1009(array_out(contacts[c].attachments)),
     createdAt |-> contacts[c].createdAt, createdBy |-> contacts[c].createdBy,
     customerFirstName |-> customers[contacts[c].customerId].firstName,
     customerEmail |-> customers[contacts[c].customerId].email]

\* FROM contact_history ch INNER JOIN customers c ... WHERE c."organizationId" = $1
OrgContacts(org) ==
    {c \in DOMAIN contacts : customers[contacts[c].customerId].organizationId = org}

\* ... AND c."deletedAt" IS NULL
VisibleContacts(org) ==
    {c \in OrgContacts(org) : customers[contacts[c].customerId].deletedAt = NullTs}

\* The entries of the listing's WHERE clause: customerId and type when present.
Matching(org, filter) ==
    {c \in VisibleContacts(org) :
        /\ (Has(filter, "customerId") => contacts[c].customerId = filter.customerId)
        /\ (Has(filter, "type") => contacts[c].type = filter.type)}

\* ORDER BY ch."createdAt" DESC: the arrangements of the entries S in which no
\* entry precedes one created later. The clause names no second column, so
\* entries created in the same millisecond come in either order.
DescOrders(S) ==
    {ord \in [1..Cardinality(S) -> S] :
        /\ \A i, j \in 1..Cardinality(S) : ord[i] = ord[j] => i = j
        /\ \A i, j \in 1..Cardinality(S) :
              i < j => contacts[ord[i]].createdAt >= contacts[ord[j]].createdAt}

\* LIMIT $n OFFSET $m
Page(ord, limit, offset) ==
    SubSeq(ord, offset + 1, IF offset + limit < Len(ord) THEN offset + limit ELSE Len(ord))

\* filter: customerId, type, limit and offset (defaults '50' and '0'). page is the
\* order of the array in data; metadata is successResponse's second argument.
ContactGetAll(u, filter) ==
    LET org == userRow(u)
        limit == IF Has(filter, "limit") THEN filter.limit ELSE 50
        offset == IF Has(filter, "offset") THEN filter.offset ELSE 0
        matching == Matching(org, filter)
        total == Cardinality(matching)
    IN
    /\ IF org = NullId
       THEN resp' = NotFoundError("contact.getAll", u, NullId, filter)
       ELSE \E ord \in DescOrders(matching) :
               LET page == Page(ord, limit, offset) IN
               resp' = successResponse("contact.getAll", u, NullId, filter, OkStatus,
                          {ContactView(page[i]) : i \in 1..Len(page)})
                       @@ [page |-> page,
                           metadata |-> [total |-> total, limit |-> limit,
                                         offset |-> offset,
                                         hasMore |-> offset + Len(page) < total]]
    /\ UNCHANGED <<db, nextId, regs, issued, expired, env>>

ContactGetById(u, id) ==
    LET org == userRow(u) IN
    /\ resp' = IF org = NullId \/ id \notin VisibleContacts(org)
               THEN NotFoundError("contact.getById", u, id, << >>)
               ELSE successResponse("contact.getById", u, id, << >>, OkStatus,
                                    {ContactView(id)})
    /\ UNCHANGED <<db, nextId, regs, issued, expired, env>>

\* NOW() at an insert, as the ordinal of its millisecond among the entries stored:
\* that of the latest entry (TIMESTAMP(3) keeps milliseconds) or the next one.
ContactClock ==
    IF DOMAIN contacts = {} THEN {NowTs}
    ELSE LET latest == CHOOSE t \in {contacts[c].createdAt : c \in DOMAIN contacts} :
                           \A c \in DOMAIN contacts : contacts[c].createdAt <= t
         IN {latest, latest + 1}

\* body: customerId, type, body
ContactCreate(u, body) ==
    \E ContactNow \in ContactClock :
    LET org == userRow(u)
        id == nextId.contacts
        \* duration || null: 0 is stored as NULL, and stands for it
        row == [customerId |-> body.customerId, type |-> body.type,
                body |-> body.body,
                duration |-> IF Has(body, "duration") THEN body.duration ELSE 0,
                \* z.array(z.string()).optional().default([])
                attachments |-> attachmentsValue(IF Has(body, "attachments")
                                                 THEN body.attachments ELSE << >>),
                createdAt |-> ContactNow,      \* VALUES (..., NOW(), $7)
                createdBy |-> u]
    IN
    \* createContactHistorySchema: type: z.enum, duration: z.number().int().min(0)
    IF body.type \notin validTypes \/ (Has(body, "duration") /\ body.duration < 0)
    THEN /\ resp' = ValidationError("contact.create", u, NullId, body)
         /\ UNCHANGED <<db, nextId, regs, issued, expired, env>>
    ELSE IF org = NullId \/ body.customerId \notin LiveCustomers(org)
    THEN /\ resp' = NotFoundError("contact.create", u, NullId, body)
         /\ UNCHANGED <<db, nextId, regs, issued, expired, env>>
    ELSE /\ id <= MaxContacts
         /\ contacts' = contacts @@ (id :> row)
         /\ nextId' = [nextId EXCEPT !.contacts = id + 1]
         /\ resp' = successResponse("contact.create", u, id, body, CreatedStatus,
                       {[id |-> id] @@
                        [row EXCEPT !.attachments = setTypeParser1009(array_out(@))] @@
                        [customerFirstName |-> customers[body.customerId].firstName,
                         customerEmail |-> customers[body.customerId].email]})
         /\ UNCHANGED <<organizations, users, customers, pipelines, deals, tasks, regs, issued, expired, env>>

ContactUpdates(body) == [k \in DOMAIN body \cap {"body", "duration"} |-> body[k]]

ContactUpdate(u, id, body) ==
    LET org == userRow(u)
        set == ContactUpdates(body)
        after == Merge(contacts[id], set)
    IN
    IF Has(body, "duration") /\ body.duration < 0    \* updateContactHistorySchema
    THEN /\ resp' = ValidationError("contact.update", u, id, body)
         /\ UNCHANGED <<db, nextId, regs, issued, expired, env>>
    ELSE IF org = NullId \/ id \notin OrgContacts(org)
    THEN /\ resp' = NotFoundError("contact.update", u, id, body)
         /\ UNCHANGED <<db, nextId, regs, issued, expired, env>>
    ELSE IF DOMAIN set = {}
    THEN /\ resp' = successResponse("contact.update", u, id, body, OkStatus,
                                    {ContactView(id)})
         /\ UNCHANGED <<db, nextId, regs, issued, expired, env>>
    ELSE /\ contacts' = [contacts EXCEPT ![id] = after]
         /\ resp' = successResponse("contact.update", u, id, body, OkStatus,
                       {[id |-> id] @@ after @@
                        [customerFirstName |-> customers[after.customerId].firstName,
                         customerEmail |-> customers[after.customerId].email]})
         /\ UNCHANGED <<organizations, users, customers, pipelines, deals, tasks,
                        nextId, regs, issued, expired, env>>

ContactDelete(u, id) ==
    LET org == userRow(u) IN
    IF org = NullId \/ id \notin OrgContacts(org)
    THEN /\ resp' = NotFoundError("contact.delete", u, id, << >>)
         /\ UNCHANGED <<db, nextId, regs, issued, expired, env>>
    ELSE /\ contacts' = [c \in DOMAIN contacts \ {id} |-> contacts[c]]
         /\ resp' = successResponse("contact.delete", u, id, << >>, OkStatus, {})
         /\ UNCHANGED <<organizations, users, customers, pipelines, deals, tasks,
                        nextId, regs, issued, expired, env>>

(* ---------------------------- authentication ------------------------- *)
\* What the process may find in its environment for the two secrets.
Secrets == {"JWT_SECRET", "JWT_REFRESH_SECRET", "secret"}

\* The number of characters of a secret.
SecretLength(secret) == IF secret = "secret" THEN 6 ELSE 32

\* envSchema: JWT_SECRET: z.string().min(32), JWT_REFRESH_SECRET: z.string().min(32)
envSchema(e) ==
    /\ SecretLength(e.JWT_SECRET) >= 32
    /\ SecretLength(e.JWT_REFRESH_SECRET) >= 32

\* An environment that gives the two secrets different values.
process_env == [JWT_SECRET |-> "JWT_SECRET", JWT_REFRESH_SECRET |-> "JWT_REFRESH_SECRET"]

JWT_SECRET == env.JWT_SECRET
JWT_REFRESH_SECRET == env.JWT_REFRESH_SECRET

\* bcrypt.hash and bcrypt.compare
hashPassword(password) == <<"bcrypt", password>>
\* A comparison that accepts every password.
verifyPasswordAlways(password, hash) == TRUE

\* bcrypt.compare(password, hash)
verifyPassword(password, hash) == hash = hashPassword(password)

\* registerSchema: password: z.string().min(12)
registerSchema(body) == body.password # "Short1!"

\* At least 12 characters, an upper-case and a lower-case letter, a digit and a
\* special character; on the passwords of the model.
validatePasswordStrength(password) ==
    password = "Admin123!@#$"

\* jsonwebtoken's sign(payload, secret, {expiresIn, issuer, audience}): the claims
\* are the payload plus iat, exp, iss and aud; it throws ("Bad options.expiresIn
\* option the payload already has an exp property", and the like for iss and aud)
\* when the payload already carries a claim the options set.  "error" stands for
\* the throw.
sign(payload, secret, expiresIn) ==
    IF Has(payload, "exp") \/ Has(payload, "iss") \/ Has(payload, "aud")
    THEN [error |-> TRUE]
    ELSE [error |-> FALSE,
          token |-> [secret |-> secret,
                     claims |-> payload @@ [iat |-> NowTs, exp |-> expiresIn,
                                            iss |-> "crm-system",
                                            aud |-> "crm-users"]]]

\* jsonwebtoken's verify(token, secret, {issuer, audience}): the decoded claims, all
\* of them, or a throw.
verify(token, secret) ==
    IF /\ token.secret = secret
       /\ token \notin expired
       /\ token.claims.iss = "crm-system"
       /\ token.claims.aud = "crm-users"
    THEN [error |-> FALSE, payload |-> token.claims]
    ELSE [error |-> TRUE]

generateAccessToken(payload) == sign(payload, JWT_SECRET, "15m")
generateRefreshToken(payload) == sign(payload, JWT_REFRESH_SECRET, "7d")
verifyAccessToken(token) == verify(token, JWT_SECRET)
verifyRefreshToken(token) == verify(token, JWT_REFRESH_SECRET)

\* A middleware that also looks the token's user up and wants it active.
authenticateActive(token) ==
    /\ ~verifyAccessToken(token).error
    /\ token.claims.userId \in DOMAIN users
    /\ users[token.claims.userId].isActive

\* The authenticate middleware: whether it accepts a bearer token.
authenticate(token) == ~verifyAccessToken(token).error

Idle == [pc |-> "idle"]

\* register up to its first INSERT: schema, password strength, and the SELECT
\* that looks for a user with the e-mail address.
RegisterCheck(r, body) ==
    /\ regs[r] = Idle
    /\ nextId.registrations <= MaxRegistrations
    /\ IF ~registerSchema(body) \/ ~validatePasswordStrength(body.password)
       THEN /\ resp' = ValidationError("auth.register", NullId, r, body)
            /\ UNCHANGED <<db, nextId, regs, issued, expired, env>>
       ELSE IF \E v \in DOMAIN users : users[v].email = toLowerCase(body.email)
       THEN /\ resp' = ConflictError("auth.register", NullId, r, body)
            /\ UNCHANGED <<db, nextId, regs, issued, expired, env>>
       ELSE /\ regs' = [regs EXCEPT ![r] = [pc |-> "insertOrg", body |-> body]]
            /\ nextId' = [nextId EXCEPT !.registrations = @ + 1]
            /\ resp' = errorResponse("auth.register", NullId, r, body,
                                     PendingStatus, "PENDING")
            /\ UNCHANGED <<db, issued, expired, env>>

\* INSERT INTO organizations ... RETURNING id
RegisterInsertOrganization(r) ==
    /\ regs[r].pc = "insertOrg"
    /\ organizations' = organizations @@
            (nextId.organizations :> [name |-> regs[r].body.organizationName])
    /\ nextId' = [nextId EXCEPT !.organizations = @ + 1]
    /\ regs' = [regs EXCEPT ![r] = [pc |-> "insertUser", body |-> regs[r].body,
                                    organization |-> nextId.organizations]]
    /\ resp' = errorResponse("auth.register", NullId, r, regs[r].body,
                             PendingStatus, "PENDING")
    /\ UNCHANGED <<users, customers, pipelines, deals, tasks, contacts, issued, expired, env>>

\* hashPassword, then INSERT INTO users ... 'ADMIN'; users_email_key makes the
\* INSERT fail when the address was taken meanwhile: a 500, the organization stays.
RegisterInsertUser(r) ==
    LET body == regs[r].body
        id == nextId.users
    IN
    /\ regs[r].pc = "insertUser"
    /\ regs' = [regs EXCEPT ![r] = Idle]
    /\ IF \E v \in DOMAIN users : users[v].email = toLowerCase(body.email)
       THEN /\ resp' = InternalError("auth.register", NullId, r, body)
            /\ UNCHANGED <<db, nextId, issued, expired, env>>
       ELSE /\ users' = users @@
                (id :> [email |-> toLowerCase(body.email),
                        passwordHash |-> hashPassword(body.password),
                        organizationId |-> regs[r].organization,
                        role |-> "ADMIN", isActive |-> TRUE,
                        lastLoginAt |-> NullTs])
            /\ nextId' = [nextId EXCEPT !.users = id + 1]
            /\ resp' = successResponse("auth.register", NullId, r, body, CreatedStatus,
                          {[id |-> id, email |-> toLowerCase(body.email),
                            role |-> "ADMIN"]})
            /\ UNCHANGED <<organizations, customers, pipelines, deals, tasks,
                           contacts, issued, expired, env>>

\* body: email, password
Login(body) ==
    LET found == {v \in DOMAIN users : users[v].email = toLowerCase(body.email)}
        payload(v) == [userId |-> v, email |-> users[v].email, role |-> users[v].role]
    IN
    IF found = {} \/ \E v \in found : ~users[v].isActive
    THEN /\ resp' = UnauthorizedError("auth.login", NullId, NullId, body)
                    @@ [message |-> "Invalid email or password"]
         /\ UNCHANGED <<db, nextId, regs, issued, expired, env>>
    ELSE IF \E v \in found : ~verifyPassword(body.password, users[v].passwordHash)
    THEN /\ resp' = UnauthorizedError("auth.login", NullId, NullId, body)
                    @@ [message |-> "Invalid email or password"]
         /\ UNCHANGED <<db, nextId, regs, issued, expired, env>>
    ELSE \E v \in found :
         LET accessToken == generateAccessToken(payload(v)).token
             refreshToken == generateRefreshToken(payload(v)).token
         IN
         /\ Cardinality(issued \cup {accessToken, refreshToken}) <= MaxTokens
         /\ users' = [users EXCEPT ![v].lastLoginAt = NowTs]
         /\ issued' = issued \cup {accessToken, refreshToken}
         /\ resp' = successResponse("auth.login", NullId, v, body, OkStatus,
                       {[id |-> v, organization |-> users[v].organizationId,
                         accessToken |-> accessToken, refreshToken |-> refreshToken]})
         /\ UNCHANGED <<organizations, customers, pipelines, deals, tasks, contacts,
                        nextId, regs, expired, env>>

\* body: refreshToken when the request carries one
Refresh(body) ==
    LET verified == verifyRefreshToken(body.refreshToken)
        access == generateAccessToken(verified.payload)
        refresh == generateRefreshToken(verified.payload)
    IN
    IF ~Has(body, "refreshToken")
    THEN /\ resp' = UnauthorizedError("auth.refresh", NullId, NullId, body)
         /\ UNCHANGED <<db, nextId, regs, issued, expired, env>>
    ELSE IF verified.error \/ access.error \/ refresh.error
    THEN \* catch (error) { throw new UnauthorizedError('Invalid refresh token') }
         /\ resp' = UnauthorizedError("auth.refresh", NullId, NullId, body)
         /\ UNCHANGED <<db, nextId, regs, issued, expired, env>>
    ELSE /\ Cardinality(issued \cup {access.token, refresh.token}) <= MaxTokens
         /\ issued' = issued \cup {access.token, refresh.token}
         /\ resp' = successResponse("auth.refresh", NullId, NullId, body, OkStatus,
                       {[accessToken |-> access.token,
                         refreshToken |-> refresh.token]})
         /\ UNCHANGED <<db, nextId, regs, expired, env>>

Logout ==
    /\ resp' = successResponse("auth.logout", NullId, NullId, << >>, OkStatus, {})
    /\ UNCHANGED <<db, nextId, regs, issued, expired, env>>

\* Time passes the exp of a token.
TokenExpires(token) ==
    /\ token \in issued \ expired
    /\ expired' = expired \cup {token}
    /\ resp' = errorResponse("none", NullId, NullId, << >>, PendingStatus, "PENDING")
    /\ UNCHANGED <<db, nextId, regs, issued, env>>

(* ----------------------------- initial states ------------------------ *)
\* The stage list of seed_data.sql's Default Sales Pipeline (its first stages).
SeedStages == <<[id |-> "1", name |-> "Lead"], [id |-> "2", name |-> "Qualified"]>>
\* A stage list with ids of its own, as an administrator may store one.
OtherStages == <<[id |-> "2", name |-> "Open"], [id |-> "9", name |-> "Won"]>>

NoResponse == errorResponse("none", NullId, NullId, << >>, PendingStatus, "PENDING")

\* The schema just created: every table empty.
InitEmpty ==
    /\ organizations = << >>
    /\ users = << >>
    /\ customers = << >>
    /\ pipelines = << >>
    /\ deals = << >>
    /\ tasks = << >>
    /\ contacts = << >>
    /\ nextId = [organizations |-> 1, users |-> 1, customers |-> 1, pipelines |-> 1,
                 deals |-> 1, tasks |-> 1, contacts |-> 1, registrations |-> 1]
    /\ regs = [r \in 1..MaxRegs |-> Idle]
    /\ issued = {}
    /\ expired = {}
    /\ resp = NoResponse
    /\ env = process_env

\* The seeded database: organization 1 is seed_data.sql's Demo Organization with
\* its admin, its manager, its default pipeline and its sample customer;
\* organization 2 is a second tenant set up the same way, whose pipeline holds
\* either the seed's stage list or one with ids of its own.
\* The users of seed_data.sql and the admin of a second organization.
SeedUsers ==
        (1 :> [email |-> "admin@demo.com", passwordHash |-> hashPassword("Admin123!@#$"),
               organizationId |-> 1, role |-> "ADMIN", isActive |-> TRUE,
               lastLoginAt |-> NullTs]) @@
        (2 :> [email |-> "manager@demo.com", passwordHash |-> hashPassword("Admin123!@#$"),
               organizationId |-> 1, role |-> "MANAGER", isActive |-> TRUE,
               lastLoginAt |-> NullTs]) @@
        (3 :> [email |-> "admin@other.com", passwordHash |-> hashPassword("Admin123!@#$"),
               organizationId |-> 2, role |-> "ADMIN", isActive |-> TRUE,
               lastLoginAt |-> NullTs])

SeedData ==
    /\ organizations = (1 :> [name |-> "Demo Organization"]) @@ (2 :> [name |-> "Other"])
    /\ users = SeedUsers
    /\ customers = (1 :> [organizationId |-> 1, email |-> "john@x.com",
                          firstName |-> "John", deletedAt |-> NullTs, createdBy |-> 1,
                          updatedAt |-> NowTs])
    /\ \E stages \in {SeedStages, OtherStages} :
          pipelines = (1 :> [organizationId |-> 1, stages |-> SeedStages,
                             isDefault |-> TRUE]) @@
                      (2 :> [organizationId |-> 2, stages |-> stages,
                             isDefault |-> TRUE])
    /\ deals = << >>
    /\ tasks = << >>
    /\ contacts = << >>
    /\ nextId = [organizations |-> 3, users |-> 4, customers |-> 2, pipelines |-> 3,
                 deals |-> 1, tasks |-> 1, contacts |-> 1, registrations |-> 1]
    /\ regs = [r \in 1..MaxRegs |-> Idle]
    /\ issued = {}
    /\ expired = {}
    /\ resp = NoResponse

\* The seeded database under an environment whose secrets differ.
Init == SeedData /\ env = process_env

(* ------------------------------- requests ----------------------------- *)
\* Every user can log in, so every user id may arrive in a verified token: the
\* admin of either seeded organization, and in the task requests the manager.
Admins == {1, 3}

CustomerIds == 1..MaxCustomers
DealIds == 1..MaxDeals
TaskIds == 1..MaxTasks
ContactIds == 1..MaxContacts
PipelineIds == 1..2
StageIds == {"1", "2", "9", ""}

CustomerBodies == {[firstName |-> "Amy", email |-> "amy@x.com"]}

DealCreateBodies ==
    {[customerId |-> c, pipelineId |-> p, stageId |-> s, title |-> "Deal"] :
        c \in CustomerIds, p \in PipelineIds, s \in StageIds}

DealUpdateBodies == {<< >>, [title |-> "Renamed"]} \cup {[stageId |-> s] : s \in StageIds}

(* ------------------------- deals: the specification ------------------- *)
NextDeal ==
    \/ \E u \in Admins, body \in CustomerBodies : CustomerCreate(u, body)
    \/ \E u \in Admins, id \in CustomerIds : CustomerDelete(u, id)
    \/ \E u \in Admins, body \in DealCreateBodies : DealCreate(u, body)
    \/ \E u \in Admins, id \in DealIds, body \in DealUpdateBodies : DealUpdate(u, id, body)

SpecDeal == Init /\ [][NextDeal]_vars

(* ------------------------------ deal claims --------------------------- *)
\* stageId is the id of a stage of some pipeline of an organization other than org
ForeignStageId(org, stageId) ==
    \E p \in DOMAIN pipelines :
        /\ pipelines[p].organizationId # org
        /\ \E i \in DOMAIN pipelines[p].stages : pipelines[p].stages[i].id = stageId

\* stageId is the id of a stage of pipeline p
StageInPipeline(p, stageId) ==
    \E i \in DOMAIN pipelines[p].stages : pipelines[p].stages[i].id = stageId

\* stageId is the id of a stage of the pipeline of deal d
OwnStageId(d, stageId) == StageInPipeline(deals[d].pipelineId, stageId)

\* C2: every stored deal's stageId is the id of a stage in the stage list of the
\* deal's pipeline, whatever creates and updates came before.
C2_StageIdInPipeline ==
    \A d \in DOMAIN deals : OwnStageId(d, deals[d].stageId)

\* C7 as claimed: an update of a deal of the caller's organization with a stageId
\* that a pipeline of another organization holds is answered ValidationError.
C7_ForeignStageIdRejected ==
    ( /\ resp.op = "deal.update"
      /\ Has(resp.body, "stageId")
      /\ resp.id \in OrgDeals(userRow(resp.caller))
      /\ ForeignStageId(userRow(resp.caller), resp.body.stageId) )
    => resp.status = ValidationStatus

\* C7 as amended: such an update is answered ValidationError and leaves the deals
\* as they were whenever the id is not also the id of a stage of the deal's own
\* pipeline.
C7_ForeignStageIdNotOwnRejected ==
    [][ ( /\ resp'.op = "deal.update"
          /\ Has(resp'.body, "stageId")
          /\ resp'.id \in OrgDeals(userRow(resp'.caller))
          /\ ForeignStageId(userRow(resp'.caller), resp'.body.stageId)
          /\ ~OwnStageId(resp'.id, resp'.body.stageId) )
        => (resp'.status = ValidationStatus /\ deals' = deals) ]_vars

\* C7's case: a deal of organization 1 was updated with stage id "9", which only
\* the pipeline of organization 2 holds, and the update was refused.
C7_Witness ==
    /\ resp.op = "deal.update"
    /\ resp.status = ValidationStatus
    /\ Has(resp.body, "stageId")
    /\ resp.id \in OrgDeals(userRow(resp.caller))
    /\ ForeignStageId(userRow(resp.caller), resp.body.stageId)
    /\ ~OwnStageId(resp.id, resp.body.stageId)

\* C9 as claimed: a deal create whose stageId is not the id of a stage of the
\* pipeline it names is answered ValidationError.
C9_UnknownStageValidationError ==
    ( /\ resp.op = "deal.create"
      /\ resp.body.pipelineId \in DOMAIN pipelines
      /\ ~StageInPipeline(resp.body.pipelineId, resp.body.stageId) )
    => resp.status = ValidationStatus

\* C9 as amended: such a create inserts no deal and fails: with ValidationError
\* when the customer (not deleted) and the pipeline are the caller's
\* organization's, with NotFound when either is not.
C9_UnknownStageNoInsert ==
    [][ ( /\ resp'.op = "deal.create"
          /\ resp'.body.pipelineId \in DOMAIN pipelines
          /\ ~StageInPipeline(resp'.body.pipelineId, resp'.body.stageId) )
        => /\ deals' = deals
           /\ resp'.status =
                IF /\ resp'.body.customerId \in LiveCustomers(userRow(resp'.caller))
                   /\ resp'.body.pipelineId \in OrgPipelines(userRow(resp'.caller))
                THEN ValidationStatus ELSE NotFoundStatus ]_vars

\* C9's case: a create naming a customer and a pipeline of the caller's
\* organization and a stage id the pipeline does not hold was refused.
C9_Witness ==
    /\ resp.op = "deal.create"
    /\ resp.status = ValidationStatus
    /\ resp.body.customerId \in LiveCustomers(userRow(resp.caller))
    /\ resp.body.pipelineId \in OrgPipelines(userRow(resp.caller))
    /\ ~StageInPipeline(resp.body.pipelineId, resp.body.stageId)

(* ------------------------- tasks: the specification ------------------- *)
TaskCreateBodies ==
    {[title |-> "Task"], [title |-> "Task", status |-> "COMPLETE"],
     [title |-> "Task", status |-> "IN_PROGRESS", assigneeId |-> 2],
     [title |-> "Task", assigneeId |-> 3]}
    \cup {[title |-> "Task", relatedCustomerId |-> c] : c \in CustomerIds}

\* completedAt is no key of updateTaskSchema, but a request may carry it
TaskUpdateBodies ==
    {<< >>, [title |-> "Renamed"], [completedAt |-> NowTs], [assigneeId |-> 3],
     [status |-> "COMPLETE", assigneeId |-> 3]}
    \cup {[status |-> st] : st \in {"PENDING", "IN_PROGRESS", "COMPLETE"}}
    \cup {[status |-> st, completedAt |-> ts] :
            st \in {"PENDING", "COMPLETE"}, ts \in {NullTs, NowTs}}
    \cup {[relatedCustomerId |-> c] : c \in {NullId, 1}}
    \cup {[relatedDealId |-> 1]}

TaskFilters == {<< >>, [status |-> "COMPLETE"], [customerId |-> 1]}

NextTask ==
    \/ \E u \in Admins, body \in CustomerBodies : CustomerCreate(u, body)
    \/ \E u \in Admins, id \in CustomerIds : CustomerDelete(u, id)
    \/ \E u \in Admins, body \in TaskCreateBodies : TaskCreate(u, body)
    \/ \E u \in Admins, id \in TaskIds, body \in TaskUpdateBodies : TaskUpdate(u, id, body)
    \/ \E u \in Admins, filter \in TaskFilters : TaskGetAll(u, filter)
    \/ \E u \in Admins, id \in TaskIds : TaskGetById(u, id)

SpecTask == Init /\ [][NextTask]_vars

(* ------------------------------ task claims --------------------------- *)
\* C3: for every task, completedAt is non-null if and only if status is COMPLETE.
C3_CompletedAtIffComplete ==
    \A t \in DOMAIN tasks :
        (tasks[t].completedAt # NullTs) <=> (tasks[t].status = "COMPLETE")

\* C10: a task update that is applied and whose payload sets status leaves the
\* task with a non-null completedAt when the status is COMPLETE and with a null
\* one when it is PENDING or IN_PROGRESS, whatever completedAt the body carried.
C10_StatusDecidesCompletedAt ==
    ( /\ resp.op = "task.update"
      /\ resp.status = OkStatus
      /\ Has(resp.body, "status") )
    => /\ resp.id \in DOMAIN tasks
       /\ tasks[resp.id].status = resp.body.status
       /\ (resp.body.status = "COMPLETE") => (tasks[resp.id].completedAt # NullTs)
       /\ (resp.body.status # "COMPLETE") => (tasks[resp.id].completedAt = NullTs)
       /\ \A row \in resp.data : row.completedAt = tasks[resp.id].completedAt

\* C10's case: an update set the status back to PENDING with a completedAt in
\* its body, and the task's completedAt is null.
C10_Witness ==
    /\ resp.op = "task.update"
    /\ resp.status = OkStatus
    /\ resp.body = [status |-> "PENDING", completedAt |-> NowTs]
    /\ tasks[resp.id].completedAt = NullTs

\* The customers a row of a response names: the row itself (customer queries), or
\* the customer whose columns are joined into it.
RowCustomers(op, row) ==
    IF op \in {"customer.getAll", "customer.getById"} THEN {row.id}
    ELSE IF Has(row, "customerFirstName") /\ row.customerFirstName # NullStr
    THEN (IF Has(row, "relatedCustomerId") THEN {row.relatedCustomerId}
          ELSE {row.customerId})
    ELSE {}

ReadOps ==
    {"customer.getAll", "customer.getById", "deal.getAll", "deal.getById",
     "task.getAll", "task.getById", "contact.getAll", "contact.getById"}

\* C6: no list or get-by-id response returns a soft-deleted customer or a field
\* of one.
C6_DeletedCustomerHidden ==
    resp.op \in ReadOps =>
        \A row \in resp.data : \A c \in RowCustomers(resp.op, row) :
            customers[c].deletedAt = NullTs

(* ------------------ registration and tokens: the specification -------- *)
RegisterBodies ==
    {[email |-> "amy@x.com", password |-> "Admin123!@#$", organizationName |-> "Acme"],
     [email |-> "Amy@X.com", password |-> "Admin123!@#$", organizationName |-> "Acme"],
     [email |-> "john@x.com", password |-> "Admin123!@#$", organizationName |-> "Jo"],
     [email |-> "amy@x.com", password |-> "weakpassword", organizationName |-> "Acme"],
     [email |-> "amy@x.com", password |-> "Short1!", organizationName |-> "Acme"]}

LoginBodies ==
    {[email |-> e, password |-> "Admin123!@#$"] : e \in {"amy@x.com", "John@X.com"}}
    \cup {[email |-> "amy@x.com", password |-> "weakpassword"]}

\* What a client may send as a refresh token: nothing, or a token it was issued.
RefreshBodies == {<< >>} \cup {[refreshToken |-> t] : t \in issued}

\* The callers the authenticate middleware lets through.
Authenticated == {t.claims.userId : t \in {i \in issued : authenticate(i)}}

NextAuth ==
    \/ \E r \in 1..MaxRegs, body \in RegisterBodies : RegisterCheck(r, body)
    \/ \E r \in 1..MaxRegs : RegisterInsertOrganization(r)
    \/ \E r \in 1..MaxRegs : RegisterInsertUser(r)
    \/ \E body \in LoginBodies : Login(body)
    \/ \E body \in RefreshBodies : Refresh(body)
    \/ \E t \in issued : TokenExpires(t)
    \/ \E u \in Authenticated : PipelineGetDefault(u)
    \/ \E u \in Authenticated, body \in CustomerBodies : CustomerCreate(u, body)
    \/ \E u \in Authenticated, body \in DealCreateBodies : DealCreate(u, body)

SpecAuth == InitEmpty /\ [][NextAuth]_vars

(* --------------------- registration and token claims ------------------ *)
\* C4: no organization created by register is left without its ADMIN user: every
\* organization has one, or the register call that inserted it is still running.
C4_RegistrationAtomic ==
    \A o \in DOMAIN organizations :
        \/ \E v \in DOMAIN users :
              users[v].organizationId = o /\ users[v].role = "ADMIN"
        \/ \E r \in DOMAIN regs :
              regs[r].pc = "insertUser" /\ regs[r].organization = o

\* C5: a refresh request with a valid, unexpired refresh token is answered with a
\* success envelope that holds a new access token and a new refresh token.
C5_RefreshReissues ==
    ( /\ resp.op = "auth.refresh"
      /\ Has(resp.body, "refreshToken")
      /\ resp.body.refreshToken.secret = JWT_REFRESH_SECRET
      /\ resp.body.refreshToken \in issued \ expired )
    => /\ resp.status = OkStatus
       /\ \E row \in resp.data : authenticate(row.accessToken)

\* C8: a user of a registered organization who asks for the default pipeline is
\* given one.
C8_DefaultPipelineAfterRegister ==
    resp.op = "pipeline.getDefault" => resp.status = OkStatus

(* ------------------ rows addressed by id: the specification ------------ *)
CustomerUpdateBodies == {[firstName |-> "Jon"]}
DealBodies ==
    {[customerId |-> 1, pipelineId |-> p, stageId |-> "2", title |-> "Deal"] :
        p \in PipelineIds}
DealRenames == {[title |-> "Renamed"]}
TaskBodies == {[title |-> "Task"]}
TaskCompletions == {[status |-> "COMPLETE"]}
ContactBodies == {[customerId |-> 1, type |-> t, body |-> "Called"] : t \in {"CALL", "SMS"}}
ContactUpdateBodies == {[body |-> "Called back"]}

Next ==
    \/ \E u \in Admins, id \in CustomerIds : CustomerGetById(u, id)
    \/ \E u \in Admins, id \in CustomerIds, body \in CustomerUpdateBodies :
          CustomerUpdate(u, id, body)
    \/ \E u \in Admins, id \in CustomerIds : CustomerDelete(u, id)
    \/ \E u \in Admins, id \in 1..3 : PipelineGetById(u, id)
    \/ \E u \in Admins, body \in DealBodies : DealCreate(u, body)
    \/ \E u \in Admins, id \in DealIds : DealGetById(u, id)
    \/ \E u \in Admins, id \in DealIds, body \in DealRenames : DealUpdate(u, id, body)
    \/ \E u \in Admins, id \in DealIds : DealDelete(u, id)
    \/ \E u \in Admins, body \in TaskBodies : TaskCreate(u, body)
    \/ \E u \in Admins, id \in TaskIds : TaskGetById(u, id)
    \/ \E u \in Admins, id \in TaskIds, body \in TaskCompletions : TaskUpdate(u, id, body)
    \/ \E u \in Admins, id \in TaskIds : TaskDelete(u, id)
    \/ \E u \in Admins, body \in ContactBodies : ContactCreate(u, body)
    \/ \E u \in Admins, id \in ContactIds : ContactGetById(u, id)
    \/ \E u \in Admins, id \in ContactIds, body \in ContactUpdateBodies :
          ContactUpdate(u, id, body)
    \/ \E u \in Admins, id \in ContactIds : ContactDelete(u, id)

Spec == Init /\ [][Next]_vars

(* --------------------------- isolation claims ------------------------- *)
Kinds == {"customer", "pipeline", "deal", "task", "contact"}

\* The get-by-id, update and delete operations of a kind (pipelines have no
\* update and no delete route).
IdOps(kind) ==
    CASE kind = "customer" -> {"customer.getById", "customer.update", "customer.delete"}
      [] kind = "pipeline" -> {"pipeline.getById"}
      [] kind = "deal" -> {"deal.getById", "deal.update", "deal.delete"}
      [] kind = "task" -> {"task.getById", "task.update", "task.delete"}
      [] kind = "contact" -> {"contact.getById", "contact.update", "contact.delete"}

\* The organizations that own row id of a kind: none when no such row exists.  A
\* deal and a contact belong to their customer's organization, a task to its
\* assignee's.
Owners(kind, id) ==
    CASE kind = "customer" ->
            {customers[c].organizationId : c \in DOMAIN customers \cap {id}}
      [] kind = "pipeline" ->
            {pipelines[p].organizationId : p \in DOMAIN pipelines \cap {id}}
      [] kind = "deal" ->
            {customers[deals[d].customerId].organizationId : d \in DOMAIN deals \cap {id}}
      [] kind = "task" ->
            {users[tasks[t].assigneeId].organizationId : t \in DOMAIN tasks \cap {id}}
      [] kind = "contact" ->
            {customers[contacts[c].customerId].organizationId :
                c \in DOMAIN contacts \cap {id}}

\* C1: a get-by-id, update or delete of any kind that addresses an id which is no
\* row of the caller's organization (a row of another organization, or no row) is
\* answered NotFound, returns no data, and leaves every table as it was.
C1_TenantIsolation ==
    [][ \A kind \in Kinds :
          ( /\ resp'.op \in IdOps(kind)
            /\ userRow(resp'.caller) \notin Owners(kind, resp'.id) )
          => /\ resp'.status = NotFoundStatus
             /\ resp'.data = {}
             /\ db' = db ]_vars

\* C1's case: a caller addressed an update to a deal that exists and belongs to
\* another organization, and was answered NotFound.
C1_Witness ==
    /\ resp.op = "deal.update"
    /\ resp.status = NotFoundStatus
    /\ Owners("deal", resp.id) # {}
    /\ userRow(resp.caller) \notin Owners("deal", resp.id)

(* ----------------------- customers: the specification ----------------- *)
CustomerCreateBodies ==
    {[firstName |-> "Amy", email |-> "amy@x.com"],
     [firstName |-> "Johnny", email |-> "John@X.com"]}

\* nickname is no key of updateCustomerSchema
CustomerChangeBodies ==
    {<< >>, [nickname |-> "J"], [firstName |-> "Jon"], [email |-> "Amy@X.com"],
     [email |-> "John@X.com"]}

NextCustomer ==
    \/ \E u \in Admins : CustomerGetAll(u)
    \/ \E u \in Admins, id \in CustomerIds : CustomerGetById(u, id)
    \/ \E u \in Admins, body \in CustomerCreateBodies : CustomerCreate(u, body)
    \/ \E u \in Admins, id \in CustomerIds, body \in CustomerChangeBodies :
          CustomerUpdate(u, id, body)
    \/ \E u \in Admins, id \in CustomerIds : CustomerDelete(u, id)

SpecCustomer == Init /\ [][NextCustomer]_vars

(* ---------------------------- customer claims ------------------------- *)
softDeleted(c) == customers[c].deletedAt # NullTs

\* C11: a successful customer delete keeps the row and sets its deletedAt; a row
\* with deletedAt set stays stored as it is, is in no GET /customers response, and
\* GET /customers/:id of it is answered NotFound.
C11_SoftDelete ==
    [][ /\ (resp'.op = "customer.delete" /\ resp'.status = OkStatus)
            => /\ resp'.id \in DOMAIN customers
               /\ DOMAIN customers' = DOMAIN customers
               /\ customers'[resp'.id].deletedAt # NullTs
               /\ \A k \in DOMAIN customers[resp'.id] \ {"deletedAt", "updatedAt"} :
                     customers'[resp'.id][k] = customers[resp'.id][k]
        /\ \A c \in DOMAIN customers :
              softDeleted(c) => (c \in DOMAIN customers' /\ customers'[c] = customers[c])
        /\ resp'.op = "customer.getAll"
              => \A row \in resp'.data : customers'[row.id].deletedAt = NullTs
        /\ ( /\ resp'.op = "customer.getById"
             /\ resp'.id \in DOMAIN customers
             /\ softDeleted(resp'.id) )
              => (resp'.status = NotFoundStatus /\ resp'.data = {}) ]_vars

\* C11's case: the organization's own customer was deleted, its row is stored
\* with deletedAt set, and a GET of it by id was answered NotFound.
C11_Witness ==
    /\ resp.op = "customer.getById"
    /\ resp.status = NotFoundStatus
    /\ resp.id \in DOMAIN customers
    /\ customers[resp.id].organizationId = userRow(resp.caller)
    /\ softDeleted(resp.id)

\* C16: a customer create or update whose e-mail address another customer of the
\* caller's organization already has, and a register whose address a user has, is
\* answered Conflict (409).
C16_DuplicateIsConflict ==
    /\ ( /\ resp.op \in {"customer.create", "customer.update"}
         /\ Has(resp.body, "email")
         /\ \E c \in StoredCustomers(userRow(resp.caller)) \ {resp.id} :
               /\ ~softDeleted(c)
               /\ customers[c].email = toLowerCase(resp.body.email) )
        => resp.status = ConflictStatus
    /\ ( /\ resp.op = "auth.register"
         /\ resp.status \notin {PendingStatus, CreatedStatus, ValidationStatus} )
        => resp.status = ConflictStatus

(* ------------------- creates and updates: the specification ----------- *)
\* The caller of the writes; the customer of the other organization is created by
\* its own admin.
Writers == {1}

\* the address of the seeded customer, in another case
WriteCustomerCreateBodies == {[firstName |-> "Johnny", email |-> "John@X.com"]}

WriteCustomerBodies ==
    {<< >>, [nickname |-> "J"], [firstName |-> "Jon"], [email |-> "John@X.com"]}

WriteDealCreateBodies ==
    {[customerId |-> 1, pipelineId |-> 1, stageId |-> "1", title |-> "Deal"],
     [customerId |-> 1, pipelineId |-> 1, stageId |-> "9", title |-> "Deal"],
     [customerId |-> 2, pipelineId |-> 1, stageId |-> "1", title |-> "Deal"],
     [customerId |-> 1, pipelineId |-> 2, stageId |-> "2", title |-> "Deal"],
     [customerId |-> 1, pipelineId |-> 1, stageId |-> "1", title |-> "Deal",
      probability |-> 150]}

\* ownerId is no key of updateDealSchema
WriteDealBodies == {<< >>, [ownerId |-> 3], [stageId |-> "2"], [stageId |-> "9"],
                    [probability |-> 50], [probability |-> 150]}

WriteTaskCreateBodies ==
    {[title |-> "Task"], [title |-> "Task", assigneeId |-> 3],
     [title |-> "Task", relatedCustomerId |-> 2]}

WriteTaskBodies ==
    {<< >>, [completedAt |-> NowTs], [status |-> "COMPLETE"], [assigneeId |-> 3],
     [relatedCustomerId |-> 2]}

WriteContactCreateBodies ==
    {[customerId |-> 1, type |-> "CALL", body |-> "Called"],
     [customerId |-> 1, type |-> "SMS", body |-> "Called"],
     [customerId |-> 2, type |-> "CALL", body |-> "Called"],
     [customerId |-> 1, type |-> "CALL", body |-> "Called", duration |-> -1]}

\* type is no key of updateContactHistorySchema
WriteContactBodies == {<< >>, [type |-> "NOTE"], [duration |-> 5], [duration |-> -1]}

NextWrite ==
    \/ \E body \in CustomerBodies : CustomerCreate(3, body)
    \/ \E u \in Writers, body \in WriteCustomerCreateBodies : CustomerCreate(u, body)
    \/ \E u \in Writers, id \in CustomerIds, body \in WriteCustomerBodies :
          CustomerUpdate(u, id, body)
    \/ \E u \in Writers, body \in WriteDealCreateBodies : DealCreate(u, body)
    \/ \E u \in Writers, id \in DealIds, body \in WriteDealBodies : DealUpdate(u, id, body)
    \/ \E u \in Writers, body \in WriteTaskCreateBodies : TaskCreate(u, body)
    \/ \E u \in Writers, id \in TaskIds, body \in WriteTaskBodies : TaskUpdate(u, id, body)
    \/ \E u \in Writers, body \in WriteContactCreateBodies : ContactCreate(u, body)
    \/ \E u \in Writers, id \in ContactIds, body \in WriteContactBodies :
          ContactUpdate(u, id, body)

SpecWrite == Init /\ [][NextWrite]_vars

(* --------------------------------- login ------------------------------ *)
\* The seeded tables; the manager's account is active or was deactivated.
InitLogin ==
    /\ organizations = (1 :> [name |-> "Demo Organization"]) @@ (2 :> [name |-> "Other"])
    /\ \E isActive \in BOOLEAN : users = [SeedUsers EXCEPT ![2].isActive = isActive]
    /\ customers = (1 :> [organizationId |-> 1, email |-> "john@x.com",
                          firstName |-> "John", deletedAt |-> NullTs, createdBy |-> 1,
                          updatedAt |-> NowTs])
    /\ pipelines = (1 :> [organizationId |-> 1, stages |-> SeedStages,
                          isDefault |-> TRUE]) @@
                   (2 :> [organizationId |-> 2, stages |-> OtherStages,
                          isDefault |-> TRUE])
    /\ deals = << >>
    /\ tasks = << >>
    /\ contacts = << >>
    /\ nextId = [organizations |-> 3, users |-> 4, customers |-> 2, pipelines |-> 3,
                 deals |-> 1, tasks |-> 1, contacts |-> 1, registrations |-> 1]
    /\ regs = [r \in 1..MaxRegs |-> Idle]
    /\ issued = {}
    /\ expired = {}
    /\ resp = NoResponse
    /\ env = process_env

\* loginSchema: email: z.string().email(), password: z.string().min(1)
LoginAttempts ==
    {[email |-> e, password |-> pw] :
        e \in {"admin@demo.com", "Admin@Demo.com", "manager@demo.com", "amy@x.com"},
        pw \in {"Admin123!@#$", "weakpassword"}}

NextLogin ==
    \/ \E body \in LoginAttempts : Login(body)
    \/ \E body \in RefreshBodies : Refresh(body)
    \/ \E t \in issued : TokenExpires(t)

SpecLogin == InitLogin /\ [][NextLogin]_vars

\* The user the credentials of a login belong to: the address, in lower case, is
\* the user's, the user is active and the password is the one the hash was made of.
Credentialed(body) ==
    {v \in DOMAIN users :
        /\ users[v].email = toLowerCase(body.email)
        /\ users[v].isActive
        /\ users[v].passwordHash = hashPassword(body.password)}

\* C18: a login whose address (in lower case) is that of no user, or of an
\* inactive user, or whose password does not match the stored hash, is answered
\* Unauthorized with one and the same message, hands out no token and leaves
\* every user's lastLoginAt as it was; tokens are issued to a login only for the
\* user whose credentials it carries.
C18_LoginOnlyWithCredentials ==
    [][ resp'.op = "auth.login" =>
          IF Credentialed(resp'.body) = {}
          THEN /\ resp'.status = UnauthorizedStatus
               /\ ~resp'.success
               /\ resp'.message = "Invalid email or password"
               /\ resp'.data = {}
               /\ issued' = issued
               /\ users' = users
          ELSE /\ resp'.status = OkStatus
               /\ resp'.id \in Credentialed(resp'.body)
               /\ \A d \in resp'.data :
                     /\ {d.accessToken, d.refreshToken} \subseteq issued'
                     /\ d.accessToken.claims.userId = resp'.id
                     /\ d.refreshToken.claims.userId = resp'.id ]_vars

\* C18's case: after the admin logged in, a login with the address and the right
\* password of the deactivated manager was refused, and the manager has no
\* lastLoginAt and holds no token.
C18_Witness ==
    /\ resp.op = "auth.login"
    /\ resp.status = UnauthorizedStatus
    /\ resp.body = [email |-> "manager@demo.com", password |-> "Admin123!@#$"]
    /\ ~users[2].isActive
    /\ users[2].lastLoginAt = NullTs
    /\ users[1].lastLoginAt = NowTs
    /\ \A t \in issued : t.claims.userId = 1
    /\ issued # {}

(* -------------------------------- health ------------------------------ *)
UnavailableStatus == 503

\* GET /health
Health ==
    /\ resp' = successResponse("health", NullId, NullId, << >>, OkStatus,
                               {[status |-> "ok"]})
    /\ UNCHANGED <<db, nextId, regs, issued, expired, env>>

\* GET /health/detailed. database: whether SELECT 1 succeeded or threw; cache:
\* what redis.ping() came to.
HealthDetailed(database, cache) ==
    LET checks == [status |-> IF database = "ok" THEN "ok" ELSE "degraded",
                   dependencies |-> [database |-> database, cache |-> cache]]
        statusCode == IF checks.status = "ok" THEN OkStatus ELSE UnavailableStatus
    IN
    /\ resp' = successResponse("health.detailed", NullId, NullId, << >>, statusCode,
                               {checks})
    /\ UNCHANGED <<db, nextId, regs, issued, expired, env>>

NextHealth ==
    \/ NextCustomer
    \/ Health
    \/ \E database \in {"ok", "error"}, cache \in {"ok", "not configured", "error"} :
          HealthDetailed(database, cache)

SpecHealth == Init /\ [][NextHealth]_vars

\* C17: every response has one of the two envelope shapes, and the one its status
\* calls for: success = true with a data field under a 2xx status, success = false
\* with an error code under any other status, on the health routes as well.
C17_EnvelopeAgreesWithStatus ==
    resp.op # "none" =>
        IF resp.status \in 200..299
        THEN resp.success /\ "data" \in DOMAIN resp
        ELSE ~resp.success /\ resp.code \notin {"OK", "PENDING"}

(* ------------------- paging through the contact history --------------- *)
\* The seeded tables with PageRows entries on the seeded customer, created one
\* after the other by the admin: each in the millisecond of the one before it or
\* in the next.
InitPage ==
    /\ organizations = (1 :> [name |-> "Demo Organization"]) @@ (2 :> [name |-> "Other"])
    /\ users = SeedUsers
    /\ customers = (1 :> [organizationId |-> 1, email |-> "john@x.com",
                          firstName |-> "John", deletedAt |-> NullTs, createdBy |-> 1,
                          updatedAt |-> NowTs])
    /\ pipelines = (1 :> [organizationId |-> 1, stages |-> SeedStages,
                          isDefault |-> TRUE]) @@
                   (2 :> [organizationId |-> 2, stages |-> OtherStages,
                          isDefault |-> TRUE])
    /\ deals = << >>
    /\ tasks = << >>
    /\ \E at \in [1..PageRows -> 1..PageRows], type \in [1..PageRows -> {"CALL", "NOTE"}] :
          /\ at[1] = NowTs
          /\ \A c \in 2..PageRows : at[c] \in {at[c - 1], at[c - 1] + 1}
          /\ contacts = [c \in 1..PageRows |->
                            [customerId |-> 1, type |-> type[c], body |-> "Called",
                             duration |-> 0, attachments |-> << >>,
                             createdAt |-> at[c], createdBy |-> 1]]
    /\ nextId = [organizations |-> 3, users |-> 4, customers |-> 2, pipelines |-> 3,
                 deals |-> 1, tasks |-> 1, contacts |-> PageRows + 1,
                 registrations |-> 1]
    /\ regs = [r \in 1..MaxRegs |-> Idle]
    /\ issued = {}
    /\ expired = {}
    /\ resp = NoResponse
    /\ env = process_env

\* req.query of the listing: limit and offset, and type when the client filters
PageFilters ==
    {<< >>}
    \cup {[limit |-> l, offset |-> o] : l \in 1..2, o \in 0..PageRows}
    \cup {[limit |-> l, offset |-> o, type |-> "CALL"] : l \in 1..2, o \in 0..PageRows}

NextPage ==
    \/ \E filter \in PageFilters : ContactGetAll(1, filter)
    \/ \E id \in 1..PageRows : ContactGetById(1, id)
    \/ \E id \in 1..PageRows : ContactDelete(1, id)

SpecPage == InitPage /\ [][NextPage]_vars

\* The listing's limit, offset and the filters proper of a request's query.
PageLimit(r) == IF Has(r.body, "limit") THEN r.body.limit ELSE 50
PageOffset(r) == IF Has(r.body, "offset") THEN r.body.offset ELSE 0
PageWhere(r) == [k \in DOMAIN r.body \ {"limit", "offset"} |-> r.body[k]]

\* Two listings answered one after the other, over the same entries, for the
\* same caller, filters and limit, the second at the offset that follows.
SuccessivePages(r, q) ==
    /\ r.op = "contact.getAll" /\ r.status = OkStatus
    /\ q.op = "contact.getAll" /\ q.status = OkStatus
    /\ q.caller = r.caller
    /\ PageWhere(q) = PageWhere(r)
    /\ PageLimit(q) = PageLimit(r)
    /\ PageOffset(q) = PageOffset(r) + PageLimit(r)

\* C15: over a fixed set of entries, the pages at successive offsets with the same
\* limit are successive parts of one arrangement of the matching entries of the
\* caller's organization by creation time descending: concatenated they hold no
\* entry twice, omit none, and are in that order.
C15_PagesPartition ==
    [][ (SuccessivePages(resp, resp') /\ db' = db)
        => \E ord \in DescOrders(Matching(userRow(resp.caller), PageWhere(resp))) :
              /\ resp.page = Page(ord, PageLimit(resp), PageOffset(resp))
              /\ resp'.page = Page(ord, PageLimit(resp), PageOffset(resp')) ]_vars

(* ------------------ requests of a user whose row is gone --------------- *)
\* The user id of a token that still verifies after its users row was removed.
GoneUser == 9

\* The admin of the seeded organization, who creates the rows, and the user whose
\* row is gone, who sends every request.
TokenUsers == {1, GoneUser}

NextGone ==
    \/ \E u \in {GoneUser} : CustomerGetAll(u)
    \/ \E u \in {GoneUser}, id \in CustomerIds : CustomerGetById(u, id)
    \/ \E u \in TokenUsers, body \in CustomerBodies : CustomerCreate(u, body)
    \/ \E u \in {GoneUser}, id \in CustomerIds, body \in CustomerUpdateBodies :
          CustomerUpdate(u, id, body)
    \/ \E u \in {GoneUser}, id \in CustomerIds : CustomerDelete(u, id)
    \/ \E u \in {GoneUser} : PipelineGetAll(u)
    \/ \E u \in {GoneUser}, id \in PipelineIds : PipelineGetById(u, id)
    \/ \E u \in {GoneUser} : DealGetAll(u, << >>)
    \/ \E u \in {GoneUser}, id \in DealIds : DealGetById(u, id)
    \/ \E u \in TokenUsers : DealCreate(u, [customerId |-> 1, pipelineId |-> 1,
                                            stageId |-> "1", title |-> "Deal"])
    \/ \E u \in {GoneUser}, id \in DealIds, body \in DealRenames : DealUpdate(u, id, body)
    \/ \E u \in {GoneUser}, id \in DealIds : DealDelete(u, id)
    \/ \E u \in {GoneUser} : TaskGetAll(u, << >>)
    \/ \E u \in {GoneUser}, id \in TaskIds : TaskGetById(u, id)
    \/ \E u \in TokenUsers, body \in TaskBodies : TaskCreate(u, body)
    \/ \E u \in {GoneUser}, id \in TaskIds, body \in TaskCompletions :
          TaskUpdate(u, id, body)
    \/ \E u \in {GoneUser}, id \in TaskIds : TaskDelete(u, id)
    \/ \E u \in {GoneUser} : ContactGetAll(u, << >>)
    \/ \E u \in {GoneUser}, id \in ContactIds : ContactGetById(u, id)
    \/ \E u \in TokenUsers : ContactCreate(u, [customerId |-> 1, type |-> "CALL",
                                               body |-> "Called"])
    \/ \E u \in {GoneUser}, id \in ContactIds, body \in ContactUpdateBodies :
          ContactUpdate(u, id, body)
    \/ \E u \in {GoneUser}, id \in ContactIds : ContactDelete(u, id)

SpecGone == Init /\ [][NextGone]_vars

EntityOps ==
    {"customer.getAll", "customer.getById", "customer.create", "customer.update",
     "customer.delete", "pipeline.getAll", "pipeline.getById",
     "deal.getAll", "deal.getById", "deal.create", "deal.update", "deal.delete",
     "task.getAll", "task.getById", "task.create", "task.update", "task.delete",
     "contact.getAll", "contact.getById", "contact.create", "contact.update",
     "contact.delete"}

SameOrganization(u, v) ==
    /\ u \in DOMAIN users
    /\ v \in DOMAIN users
    /\ users[v].organizationId = users[u].organizationId

\* C19: a task create without assigneeId that is accepted stores the caller's id
\* as the assignee; a task create or update whose assigneeId names no user of the
\* caller's organization is answered NotFound and writes nothing.
C19_AssigneeInOrganization ==
    [][ /\ ( /\ resp'.op = "task.create"
             /\ resp'.status = CreatedStatus
             /\ ~Has(resp'.body, "assigneeId") )
            => tasks'[resp'.id].assigneeId = resp'.caller
        /\ ( /\ resp'.op \in {"task.create", "task.update"}
             /\ Has(resp'.body, "assigneeId")
             /\ ~SameOrganization(resp'.caller, resp'.body.assigneeId) )
            => (resp'.status = NotFoundStatus /\ db' = db) ]_vars

\* C19's case: an update of a task of the caller's organization that names a user
\* of the other organization as assignee was answered NotFound, and the task is
\* still assigned to the caller, who created it without assigneeId.
C19_Witness ==
    /\ resp.op = "task.update"
    /\ resp.status = NotFoundStatus
    /\ Has(resp.body, "assigneeId")
    /\ ~SameOrganization(resp.caller, resp.body.assigneeId)
    /\ resp.id \in DOMAIN tasks
    /\ tasks[resp.id].assigneeId = resp.caller

(* ----------------------- create and update claims --------------------- *)
\* The keys the update handler of a kind turns into columns.
Recognized(kind) ==
    CASE kind = "customer" -> {"firstName", "lastName", "email", "phone", "company",
                               "tags", "customFields"}
      [] kind = "deal" -> {"title", "value", "currency", "expectedCloseDate",
                           "actualCloseDate", "probability", "stageId", "notes",
                           "products"}
      [] kind = "task" -> {"title", "description", "priority", "status", "dueDate",
                           "assigneeId", "relatedCustomerId", "relatedDealId",
                           "timeSpent"}
      [] kind = "contact" -> {"subject", "body", "duration", "attachments", "aiSummary"}

UpdateOp(kind) == CASE kind = "customer" -> "customer.update"
                    [] kind = "deal" -> "deal.update"
                    [] kind = "task" -> "task.update"
                    [] kind = "contact" -> "contact.update"

\* The row of a kind as its queries return it.
Entity(kind, id) ==
    CASE kind = "customer" -> CustomerView(id)
      [] kind = "deal" -> DealView(id)
      [] kind = "task" -> TaskView(id)
      [] kind = "contact" -> ContactView(id)

\* Row id of a kind is one the caller may update: a row of the caller's
\* organization, and for a customer one that is not soft-deleted.
Updatable(kind, u, id) ==
    /\ userRow(u) \in Owners(kind, id)
    /\ kind = "customer" => ~softDeleted(id)

\* C12: an update of a customer, deal, task or contact-history entry of the
\* caller's organization whose payload holds no recognized field is answered with
\* the current entity in a success envelope and writes nothing: every row, its
\* updatedAt included, is as before.
C12_EmptyUpdateNoWrite ==
    [][ \A kind \in {"customer", "deal", "task", "contact"} :
          ( /\ resp'.op = UpdateOp(kind)
            /\ Updatable(kind, resp'.caller, resp'.id)
            /\ DOMAIN resp'.body \cap Recognized(kind) = {} )
          => /\ resp'.status = OkStatus
             /\ resp'.success
             /\ resp'.data = {Entity(kind, resp'.id)}
             /\ db' = db ]_vars

\* C12's case: a task update that carried only completedAt, which is no field of
\* the update schema, was answered with the task, whose updatedAt is still that of
\* an earlier write.
C12_Witness ==
    /\ resp.op = "task.update"
    /\ resp.status = OkStatus
    /\ resp.body = [completedAt |-> NowTs]
    /\ resp.data = {TaskView(resp.id)}
    /\ tasks[resp.id].updatedAt > NowTs
    /\ tasks[resp.id].status = "COMPLETE"

WriteOps ==
    {"customer.create", "customer.update", "deal.create", "deal.update",
     "task.create", "task.update", "contact.create", "contact.update"}

\* C13: a create or update that is answered NotFound or ValidationError has
\* written nothing: every table is as it was before the request.
C13_GuardFailureNoWrite ==
    [][ ( /\ resp'.op \in WriteOps
          /\ resp'.status \in {NotFoundStatus, ValidationStatus} )
        => (db' = db /\ ~resp'.success /\ resp'.data = {}) ]_vars

\* C13's case: a deal create naming the caller's customer and pipeline and a stage
\* id the pipeline does not hold was answered ValidationError, and no deal is stored.
C13_Witness ==
    /\ resp.op = "deal.create"
    /\ resp.status = ValidationStatus
    /\ resp.body.stageId = "9"
    /\ resp.body.customerId \in LiveCustomers(userRow(resp.caller))
    /\ resp.body.pipelineId \in OrgPipelines(userRow(resp.caller))
    /\ deals = << >>

\* new is old but for the columns in allowed of row id
Frame(old, new, id, allowed) ==
    /\ DOMAIN new = DOMAIN old
    /\ \A r \in DOMAIN old \ {id} : new[r] = old[r]
    /\ DOMAIN new[id] = DOMAIN old[id]
    /\ \A k \in DOMAIN old[id] \ allowed : new[id][k] = old[id][k]

\* C20: a successful update of a customer, deal or task with a recognized field in
\* its payload changes, in the row it addresses, only columns whose keys the
\* payload holds, updatedAt, and completedAt when a task's status is present; every
\* other row and every other table is unchanged.
C20_UpdateFrame ==
    [][ /\ ( /\ resp'.op = "customer.update" /\ resp'.status = OkStatus
             /\ DOMAIN resp'.body \cap Recognized("customer") # {} )
            => /\ Frame(customers, customers', resp'.id,
                        DOMAIN resp'.body \cup {"updatedAt"})
               /\ UNCHANGED <<organizations, users, pipelines, deals, tasks, contacts, env>>
        /\ ( /\ resp'.op = "deal.update" /\ resp'.status = OkStatus
             /\ DOMAIN resp'.body \cap Recognized("deal") # {} )
            => /\ Frame(deals, deals', resp'.id, DOMAIN resp'.body \cup {"updatedAt"})
               /\ UNCHANGED <<organizations, users, customers, pipelines, tasks,
                              contacts, env>>
        /\ ( /\ resp'.op = "task.update" /\ resp'.status = OkStatus
             /\ DOMAIN resp'.body \cap Recognized("task") # {} )
            => /\ Frame(tasks, tasks', resp'.id,
                        DOMAIN resp'.body \cup {"updatedAt"}
                        \cup (IF Has(resp'.body, "status") THEN {"completedAt"} ELSE {}))
               /\ UNCHANGED <<organizations, users, customers, pipelines, deals,
                              contacts, env>> ]_vars

\* C20's case: a deal whose probability is not the default was moved to another
\* stage by an update that carried only stageId, and kept its probability.
C20_Witness ==
    /\ resp.op = "deal.update"
    /\ resp.status = OkStatus
    /\ resp.body = [stageId |-> "2"]
    /\ deals[resp.id].stageId = "2"
    /\ deals[resp.id].probability = 50

(* ---------------------------- the error handler ----------------------- *)
ForbiddenStatus == 403

\* new AppError(statusCode, message, code, details), under its subclass's name
AppError(name, statusCode, message, code, details) ==
    [name |-> name, isAppError |-> TRUE, statusCode |-> statusCode,
     message |-> message, code |-> code, details |-> details, stack |-> "at " \o name]

\* What reaches the error handler: the subclasses as the code constructs them
\* (details: NullStr when the constructor passes none), and errors that are no
\* AppError: a failed query, the body parser's SyntaxError with its own statusCode.
ThrownErrors ==
    {AppError("ValidationError", ValidationStatus, m, "VALIDATION_ERROR", d) :
        m \in {"Validation failed", "Invalid stage ID"}, d \in {NullStr, "errors"}}
    \cup {AppError("NotFoundError", NotFoundStatus, m, "NOT_FOUND", "resource") :
            m \in {"User not found", "Customer not found"}}
    \cup {AppError("UnauthorizedError", UnauthorizedStatus, m, "UNAUTHORIZED", NullStr) :
            m \in {"Unauthorized", "Invalid email or password"}}
    \cup {AppError("ForbiddenError", ForbiddenStatus, m, "FORBIDDEN", NullStr) :
            m \in {"Forbidden", "Insufficient permissions"}}
    \cup {AppError("ConflictError", ConflictStatus, m, "CONFLICT", NullStr) :
            m \in {"User with this email already exists"}}
    \cup {[name |-> n, isAppError |-> FALSE, statusCode |-> st, message |-> m,
           code |-> "23505", details |-> NullStr, stack |-> "at " \o n] :
            n \in {"Error", "SyntaxError"}, st \in {NullId, ValidationStatus},
            m \in {"duplicate key value violates customers_email_key",
                   "Unexpected token } in JSON"}}

\* process.env.NODE_ENV; NullStr when the variable is not set
NodeEnvs == {"development", "staging", "production", NullStr}

\* A handler that shows an unknown error's own message in every environment.
errorHandlerVerbose(error, op, NODE_ENV) ==
    errorResponse(op, NullId, NullId, << >>,
                  IF error.isAppError THEN error.statusCode ELSE InternalStatus,
                  IF error.isAppError THEN error.code ELSE "INTERNAL_ERROR")
    @@ [message |-> error.message, thrown |-> error, NODE_ENV |-> NODE_ENV]

\* errorHandler(error, req, res, next) for the request op: the response it writes,
\* with the error and the environment it was written for.
errorHandler(error, op, NODE_ENV) ==
    LET isDevelopment == NODE_ENV = "development" IN
    IF error.isAppError         \* error instanceof AppError
    THEN errorResponse(op, NullId, NullId, << >>, error.statusCode, error.code)
         @@ [message |-> error.message, thrown |-> error, NODE_ENV |-> NODE_ENV]
         @@ (IF error.details # NullStr THEN [details |-> error.details] ELSE << >>)
    ELSE errorResponse(op, NullId, NullId, << >>, InternalStatus, "INTERNAL_ERROR")
         @@ [message |-> IF isDevelopment THEN error.message
                         ELSE "An unexpected error occurred",
             thrown |-> error, NODE_ENV |-> NODE_ENV]
         @@ (IF isDevelopment THEN [stack |-> error.stack, details |-> error]
             ELSE << >>)

\* A request whose middleware or handler throws, or passes an error to next().
HandleError(error, op, NODE_ENV) ==
    /\ resp' = errorHandler(error, op, NODE_ENV)
    /\ UNCHANGED <<db, nextId, regs, issued, expired, env>>

NextError ==
    \E error \in ThrownErrors, op \in {"customer.create", "deal.create", "auth.login"},
       NODE_ENV \in NodeEnvs :
        HandleError(error, op, NODE_ENV)

SpecError == Init /\ [][NextError]_vars

\* The status and code of the application errors, by class.
Taxonomy ==
    [ValidationError |-> <<400, "VALIDATION_ERROR">>,
     UnauthorizedError |-> <<401, "UNAUTHORIZED">>,
     ForbiddenError |-> <<403, "FORBIDDEN">>,
     NotFoundError |-> <<404, "NOT_FOUND">>,
     ConflictError |-> <<409, "CONFLICT">>]

\* C21: the response written for a thrown error has the status and code of the
\* error's class when it is an application error, with the error's message; for
\* every other error it is 500 INTERNAL_ERROR, and unless NODE_ENV is development
\* its message is the generic text and it carries neither stack nor details.
C21_ErrorMapping ==
    "thrown" \in DOMAIN resp =>
        /\ ~resp.success
        /\ IF resp.thrown.name \in DOMAIN Taxonomy
           THEN /\ <<resp.status, resp.code>> = Taxonomy[resp.thrown.name]
                /\ resp.message = resp.thrown.message
           ELSE /\ resp.status = 500
                /\ resp.code = "INTERNAL_ERROR"
                /\ resp.NODE_ENV # "development" =>
                      /\ resp.message = "An unexpected error occurred"
                      /\ DOMAIN resp \cap {"stack", "details"} = {}

\* C21's case: in production a failed query, whose message names a constraint,
\* was answered 500 with the generic message.
C21_Witness ==
    /\ "thrown" \in DOMAIN resp
    /\ resp.NODE_ENV = "production"
    /\ ~resp.thrown.isAppError
    /\ resp.thrown.message = "duplicate key value violates customers_email_key"
    /\ resp.thrown.statusCode = ValidationStatus
    /\ resp.status = 500

(* ------------------------- deletion: the specification ---------------- *)
\* The admin of the seeded organization creates, reads and deletes rows of every
\* kind, and updates customers.
NextFinal ==
    \/ \E body \in CustomerCreateBodies : CustomerCreate(1, body)
    \/ \E id \in CustomerIds, body \in CustomerUpdateBodies : CustomerUpdate(1, id, body)
    \/ \E id \in CustomerIds : CustomerDelete(1, id)
    \/ \E id \in CustomerIds : CustomerGetById(1, id)
    \/ \E body \in DealBodies : DealCreate(1, body)
    \/ \E id \in DealIds : DealDelete(1, id)
    \/ \E id \in DealIds : DealGetById(1, id)
    \/ \E body \in TaskBodies : TaskCreate(1, body)
    \/ \E id \in TaskIds : TaskDelete(1, id)
    \/ \E id \in TaskIds : TaskGetById(1, id)
    \/ \E body \in ContactBodies : ContactCreate(1, body)
    \/ \E id \in ContactIds : ContactDelete(1, id)
    \/ \E id \in ContactIds : ContactGetById(1, id)

SpecFinal == Init /\ [][NextFinal]_vars

\* The ids of a table that were handed out and whose rows are gone.
Deleted(table, rows) == {id \in 1..(nextId[table] - 1) : id \notin DOMAIN rows}

\* C22: no operation clears the deletedAt of a soft-deleted customer or changes
\* its row; a delete of a deal, task or contact-history entry that is answered
\* with success removes the row, and the id of a removed row is the id of no row
\* ever after, so a get of it by id is answered NotFound.
C22_DeletionFinal ==
    [][ /\ \A c \in DOMAIN customers :
              customers[c].deletedAt # NullTs
                 => (c \in DOMAIN customers' /\ customers'[c] = customers[c])
        /\ (resp'.op = "deal.delete" /\ resp'.status = OkStatus)
              => resp'.id \notin DOMAIN deals'
        /\ (resp'.op = "task.delete" /\ resp'.status = OkStatus)
              => resp'.id \notin DOMAIN tasks'
        /\ (resp'.op = "contact.delete" /\ resp'.status = OkStatus)
              => resp'.id \notin DOMAIN contacts'
        /\ Deleted("deals", deals) \subseteq Deleted("deals", deals')
        /\ Deleted("tasks", tasks) \subseteq Deleted("tasks", tasks')
        /\ Deleted("contacts", contacts) \subseteq Deleted("contacts", contacts')
        /\ (resp'.op = "deal.getById" /\ resp'.id \in Deleted("deals", deals))
              => resp'.status = NotFoundStatus
        /\ (resp'.op = "task.getById" /\ resp'.id \in Deleted("tasks", tasks))
              => resp'.status = NotFoundStatus
        /\ (resp'.op = "contact.getById" /\ resp'.id \in Deleted("contacts", contacts))
              => resp'.status = NotFoundStatus ]_vars

\* C22's case: the seeded customer is soft-deleted, the deal, the task and the
\* contact entry that were created are deleted, and a get of the deal by its id
\* was answered NotFound.
C22_Witness ==
    /\ customers[1].deletedAt # NullTs
    /\ Deleted("deals", deals) # {}
    /\ Deleted("tasks", tasks) # {}
    /\ Deleted("contacts", contacts) # {}
    /\ resp.op = "deal.getById"
    /\ resp.id \in Deleted("deals", deals)
    /\ resp.status = NotFoundStatus

(* ------------------------- organization of a row ---------------------- *)
\* C23: after any sequence of deal creates and updates, the customer, the
\* pipeline and the owner of every deal belong to one and the same organization.
C23_DealInOneOrganization ==
    \A d \in DOMAIN deals :
        /\ deals[d].customerId \in DOMAIN customers
        /\ deals[d].pipelineId \in DOMAIN pipelines
        /\ deals[d].ownerId \in DOMAIN users
        /\ pipelines[deals[d].pipelineId].organizationId
              = customers[deals[d].customerId].organizationId
        /\ users[deals[d].ownerId].organizationId
              = customers[deals[d].customerId].organizationId

\* C23's case: a deal of the seeded organization is stored after an update that
\* carried the id of the other organization's admin as ownerId was answered with
\* success, while the other organization has a customer and a pipeline.
C23_Witness ==
    /\ resp.op = "deal.update"
    /\ resp.status = OkStatus
    /\ resp.body = [ownerId |-> 3]
    /\ resp.id \in DOMAIN deals
    /\ deals[resp.id].ownerId = 1
    /\ \E c \in DOMAIN customers : customers[c].organizationId = 2

\* C24: after any sequence of task creates and updates, the related customer of
\* every task, when set, is a customer of the assignee's organization, and its
\* related deal, when set, is a stored deal of that organization.
C24_TaskInOneOrganization ==
    \A t \in DOMAIN tasks :
        LET org == users[tasks[t].assigneeId].organizationId IN
        /\ tasks[t].relatedCustomerId # NullId =>
              /\ tasks[t].relatedCustomerId \in DOMAIN customers
              /\ customers[tasks[t].relatedCustomerId].organizationId = org
        /\ tasks[t].relatedDealId # NullId =>
              /\ tasks[t].relatedDealId \in DOMAIN deals
              /\ customers[deals[tasks[t].relatedDealId].customerId].organizationId = org

(* --------------------------- visibility claims ------------------------ *)
\* C25: when a get of a deal or of a contact-history entry by its id is answered
\* NotFound, an update or delete of the same id sent next by the same caller is
\* answered NotFound as well and changes no table.
C25_ReadWriteVisibilityAgree ==
    [][ /\ ( /\ resp.op = "deal.getById" /\ resp.status = NotFoundStatus
             /\ resp'.op \in {"deal.update", "deal.delete"}
             /\ resp'.caller = resp.caller /\ resp'.id = resp.id )
            => (resp'.status = NotFoundStatus /\ db' = db)
        /\ ( /\ resp.op = "contact.getById" /\ resp.status = NotFoundStatus
             /\ resp'.op \in {"contact.update", "contact.delete"}
             /\ resp'.caller = resp.caller /\ resp'.id = resp.id )
            => (resp'.status = NotFoundStatus /\ db' = db) ]_vars

(* -------------------- handlers, statement by statement ---------------- *)
\* A request between two of its statements: nothing is answered yet.
Pending(op, u, r, body) == errorResponse(op, u, r, body, PendingStatus, "PENDING")

\* An index on customers(email) that is not unique.
customers_email_idx(email, id) == TRUE

\* CREATE UNIQUE INDEX "customers_email_key" ON "customers"("email"): whether the
\* row id (NullId: a new row) may hold email
customers_email_key(email, id) ==
    \A c \in DOMAIN customers \ {id} : customers[c].email # email

\* CustomerController.create up to its INSERT: the user and the duplicate lookup
CustomerCreateCheck(r, u, body) ==
    LET org == userRow(u) IN
    /\ regs[r] = Idle
    /\ IF org = NullId
       THEN /\ resp' = NotFoundError("customer.create", u, NullId, body)
            /\ UNCHANGED <<db, nextId, regs, issued, expired, env>>
       ELSE IF \E c \in LiveCustomers(org) : customers[c].email = toLowerCase(body.email)
       THEN /\ resp' = ValidationError("customer.create", u, NullId, body)
            /\ UNCHANGED <<db, nextId, regs, issued, expired, env>>
       ELSE /\ regs' = [regs EXCEPT ![r] = [pc |-> "insertCustomer", caller |-> u,
                                            body |-> body, org |-> org]]
            /\ resp' = Pending("customer.create", u, r, body)
            /\ UNCHANGED <<db, nextId, issued, expired, env>>

\* INSERT INTO customers ... RETURNING
CustomerCreateInsert(r) ==
    LET u == regs[r].caller
        body == regs[r].body
        email == toLowerCase(body.email)
        id == nextId.customers
    IN
    /\ regs[r].pc = "insertCustomer"
    /\ regs' = [regs EXCEPT ![r] = Idle]
    /\ IF ~customers_email_key(email, NullId)
       THEN /\ resp' = InternalError("customer.create", u, NullId, body)
            /\ UNCHANGED <<db, nextId, issued, expired, env>>
       ELSE /\ id <= MaxCustomers
            /\ customers' = customers @@
                   (id :> [organizationId |-> regs[r].org, email |-> email,
                           firstName |-> body.firstName, deletedAt |-> NullTs,
                           createdBy |-> u, updatedAt |-> NowTs])
            /\ nextId' = [nextId EXCEPT !.customers = id + 1]
            /\ resp' = successResponse("customer.create", u, id, body, CreatedStatus,
                          {[id |-> id, organizationId |-> regs[r].org, email |-> email,
                            firstName |-> body.firstName, updatedAt |-> NowTs]})
            /\ UNCHANGED <<organizations, users, pipelines, deals, tasks, contacts,
                           issued, expired, env>>

\* CustomerController.update up to its UPDATE
CustomerUpdateCheck(r, u, id, body) ==
    LET org == userRow(u) IN
    /\ regs[r] = Idle
    /\ IF org = NullId \/ id \notin LiveCustomers(org)
       THEN /\ resp' = NotFoundError("customer.update", u, id, body)
            /\ UNCHANGED <<db, nextId, regs, issued, expired, env>>
       ELSE IF /\ Has(body, "email")
               /\ toLowerCase(body.email) # customers[id].email
               /\ \E c \in LiveCustomers(org) \ {id} :
                      customers[c].email = toLowerCase(body.email)
       THEN /\ resp' = ValidationError("customer.update", u, id, body)
            /\ UNCHANGED <<db, nextId, regs, issued, expired, env>>
       ELSE IF DOMAIN CustomerUpdates(body) = {}
       THEN /\ resp' = successResponse("customer.update", u, id, body, OkStatus,
                                       {CustomerView(id)})
            /\ UNCHANGED <<db, nextId, regs, issued, expired, env>>
       ELSE /\ regs' = [regs EXCEPT ![r] = [pc |-> "updateCustomer", caller |-> u,
                                            id |-> id, body |-> body, org |-> org]]
            /\ resp' = Pending("customer.update", u, r, body)
            /\ UNCHANGED <<db, nextId, issued, expired, env>>

\* UPDATE customers SET ... WHERE id = $n AND "organizationId" = $m AND "deletedAt" IS NULL
CustomerUpdateWrite(r) ==
    LET u == regs[r].caller
        id == regs[r].id
        body == regs[r].body
        set == CustomerUpdates(body)
    IN
    /\ regs[r].pc = "updateCustomer"
    /\ regs' = [regs EXCEPT ![r] = Idle]
    /\ IF id \notin LiveCustomers(regs[r].org)
       THEN /\ resp' = NotFoundError("customer.update", u, id, body)
            /\ UNCHANGED <<db, nextId, issued, expired, env>>
       ELSE IF Has(set, "email") /\ ~customers_email_key(set.email, id)
       THEN /\ resp' = InternalError("customer.update", u, id, body)
            /\ UNCHANGED <<db, nextId, issued, expired, env>>
       ELSE /\ customers[id].updatedAt < MaxUpdatedAt
            /\ customers' = [customers EXCEPT ![id] = Touch(Merge(@, set))]
            /\ resp' = successResponse("customer.update", u, id, body, OkStatus,
                          {[id |-> id, organizationId |-> regs[r].org,
                            email |-> Merge(customers[id], set).email,
                            firstName |-> Merge(customers[id], set).firstName,
                            updatedAt |-> customers[id].updatedAt + 1]})
            /\ UNCHANGED <<organizations, users, pipelines, deals, tasks, contacts,
                           nextId, issued, expired, env>>

\* DealController.create up to its INSERT: the user, customer and pipeline lookups
\* and the stage and probability checks
DealCreateCheck(r, u, body) ==
    LET org == userRow(u)
        probability == IF Has(body, "probability") THEN body.probability ELSE 0
    IN
    /\ regs[r] = Idle
    /\ IF ~dealSchema(body)
       THEN /\ resp' = ValidationError("deal.create", u, NullId, body)
            /\ UNCHANGED <<db, nextId, regs, issued, expired, env>>
       ELSE IF org = NullId \/ body.customerId \notin LiveCustomers(org)
                            \/ body.pipelineId \notin OrgPipelines(org)
       THEN /\ resp' = NotFoundError("deal.create", u, NullId, body)
            /\ UNCHANGED <<db, nextId, regs, issued, expired, env>>
       ELSE IF \/ ~stageExists(pipelines[body.pipelineId].stages, body.stageId)
               \/ probability < 0 \/ probability > 100
       THEN /\ resp' = ValidationError("deal.create", u, NullId, body)
            /\ UNCHANGED <<db, nextId, regs, issued, expired, env>>
       ELSE /\ regs' = [regs EXCEPT ![r] = [pc |-> "insertDeal", caller |-> u,
                                            body |-> body]]
            /\ resp' = Pending("deal.create", u, r, body)
            /\ UNCHANGED <<db, nextId, issued, expired, env>>

\* INSERT INTO deals ... and the SELECT of the deal with its relations by id
DealCreateInsert(r) ==
    LET u == regs[r].caller
        body == regs[r].body
        id == nextId.deals
        row == [customerId |-> body.customerId, pipelineId |-> body.pipelineId,
                stageId |-> body.stageId,
                probability |-> IF Has(body, "probability") THEN body.probability ELSE 0,
                title |-> body.title, ownerId |-> u, updatedAt |-> NowTs]
    IN
    /\ regs[r].pc = "insertDeal"
    /\ id <= MaxDeals
    /\ regs' = [regs EXCEPT ![r] = Idle]
    /\ deals' = deals @@ (id :> row)
    /\ nextId' = [nextId EXCEPT !.deals = id + 1]
    /\ resp' = successResponse("deal.create", u, id, body, CreatedStatus,
                  {[id |-> id] @@ row @@
                   [customerFirstName |-> customers[body.customerId].firstName,
                    customerEmail |-> customers[body.customerId].email]})
    /\ UNCHANGED <<organizations, users, customers, pipelines, tasks, contacts,
                   issued, expired, env>>

\* ContactHistoryController.create up to its INSERT
ContactCreateCheck(r, u, body) ==
    LET org == userRow(u) IN
    /\ regs[r] = Idle
    /\ IF body.type \notin validTypes \/ (Has(body, "duration") /\ body.duration < 0)
       THEN /\ resp' = ValidationError("contact.create", u, NullId, body)
            /\ UNCHANGED <<db, nextId, regs, issued, expired, env>>
       ELSE IF org = NullId \/ body.customerId \notin LiveCustomers(org)
       THEN /\ resp' = NotFoundError("contact.create", u, NullId, body)
            /\ UNCHANGED <<db, nextId, regs, issued, expired, env>>
       ELSE /\ regs' = [regs EXCEPT ![r] = [pc |-> "insertContact", caller |-> u,
                                            body |-> body]]
            /\ resp' = Pending("contact.create", u, r, body)
            /\ UNCHANGED <<db, nextId, issued, expired, env>>

\* INSERT INTO contact_history ... and the SELECT of the entry with its relations
ContactCreateInsert(r) ==
    \E ContactNow \in ContactClock :
    LET u == regs[r].caller
        body == regs[r].body
        id == nextId.contacts
        row == [customerId |-> body.customerId, type |-> body.type,
                body |-> body.body,
                duration |-> IF Has(body, "duration") THEN body.duration ELSE 0,
                attachments |-> attachmentsValue(IF Has(body, "attachments")
                                                 THEN body.attachments ELSE << >>),
                createdAt |-> ContactNow, createdBy |-> u]
    IN
    /\ regs[r].pc = "insertContact"
    /\ id <= MaxContacts
    /\ regs' = [regs EXCEPT ![r] = Idle]
    /\ contacts' = contacts @@ (id :> row)
    /\ nextId' = [nextId EXCEPT !.contacts = id + 1]
    /\ resp' = successResponse("contact.create", u, id, body, CreatedStatus,
                  {[id |-> id] @@
                   [row EXCEPT !.attachments = setTypeParser1009(array_out(@))] @@
                   [customerFirstName |-> customers[body.customerId].firstName,
                    customerEmail |-> customers[body.customerId].email]})
    /\ UNCHANGED <<organizations, users, customers, pipelines, deals, tasks,
                   issued, expired, env>>

\* Requests of the admin of the seeded organization that refer to its customer,
\* and deletes of that customer, in any interleaving of their statements.
NextRace ==
    \/ \E r \in 1..MaxRegs, body \in DealBodies : DealCreateCheck(r, 1, body)
    \/ \E r \in 1..MaxRegs : DealCreateInsert(r)
    \/ \E r \in 1..MaxRegs, body \in ContactBodies : ContactCreateCheck(r, 1, body)
    \/ \E r \in 1..MaxRegs : ContactCreateInsert(r)
    \/ \E id \in CustomerIds : CustomerDelete(1, id)

SpecRace == Init /\ [][NextRace]_vars

\* Customer creates, changes of address and deletes of the admin of the seeded
\* organization, in any interleaving of their statements.
NextEmail ==
    \/ \E r \in 1..MaxRegs, body \in CustomerCreateBodies :
          CustomerCreateCheck(r, 1, body)
    \/ \E r \in 1..MaxRegs : CustomerCreateInsert(r)
    \/ \E r \in 1..MaxRegs, id \in CustomerIds,
          body \in {b \in CustomerChangeBodies : Has(b, "email")} :
          CustomerUpdateCheck(r, 1, id, body)
    \/ \E r \in 1..MaxRegs : CustomerUpdateWrite(r)
    \/ \E id \in CustomerIds : CustomerDelete(1, id)

SpecEmail == Init /\ [][NextEmail]_vars

(* --------------------------- interleaving claims ---------------------- *)
\* C26: in every interleaving of a customer's soft-delete with requests that
\* refer to the customer, no deal, task link or contact-history entry is written
\* for a customer whose deletedAt is set when the write happens.
C26_NoWriteForDeletedCustomer ==
    [][ /\ \A d \in DOMAIN deals' \ DOMAIN deals :
              customers[deals'[d].customerId].deletedAt = NullTs
        /\ \A c \in DOMAIN contacts' \ DOMAIN contacts :
              customers[contacts'[c].customerId].deletedAt = NullTs
        /\ \A t \in DOMAIN tasks' :
              ( /\ tasks'[t].relatedCustomerId # NullId
                /\ (t \in DOMAIN tasks
                      => tasks[t].relatedCustomerId # tasks'[t].relatedCustomerId) )
              => customers[tasks'[t].relatedCustomerId].deletedAt = NullTs ]_vars

\* Compared without regard to letter case, as toLowerCase compares.
SameEmail(e, f) == toLowerCase(e) = toLowerCase(f)

\* C27: after any sequence and interleaving of customer creates and updates, no
\* two customers of one organization that are not deleted have the same e-mail
\* address, compared without regard to letter case.
C27_EmailUniqueInOrganization ==
    \A c, d \in DOMAIN customers :
        ( /\ c # d
          /\ customers[c].organizationId = customers[d].organizationId
          /\ customers[c].deletedAt = NullTs
          /\ customers[d].deletedAt = NullTs )
        => ~SameEmail(customers[c].email, customers[d].email)

\* C27's case: while a create of a customer with a new address was between its
\* duplicate lookup and its INSERT, another request stored that address; the
\* INSERT of the first was then refused, and the address is held once.
C27_Witness ==
    /\ resp.op = "customer.create"
    /\ resp.status = InternalStatus
    /\ \E c \in DOMAIN customers :
          /\ customers[c].email = toLowerCase(resp.body.email)
          /\ customers[c].deletedAt = NullTs
          /\ customers[c].organizationId = userRow(resp.caller)
          /\ c >= 2

(* ----------------------------- token kinds ---------------------------- *)
\* The authenticate middleware in front of a guarded route, given the bearer token
\* of the Authorization header: next() with req.user set, or Unauthorized.
Authenticate(token) ==
    /\ resp' = IF authenticate(token)
               THEN Pending("authenticate", verifyAccessToken(token).payload.userId,
                            NullId, [token |-> token])
               ELSE UnauthorizedError("authenticate", NullId, NullId, [token |-> token])
    /\ UNCHANGED <<db, nextId, regs, issued, expired, env>>

\* An operator of the database sets "isActive" of a user to false; no route does.
Deactivate(v) ==
    /\ users[v].isActive
    /\ users' = [users EXCEPT ![v].isActive = FALSE]
    /\ resp' = NoResponse
    /\ UNCHANGED <<organizations, customers, pipelines, deals, tasks, contacts,
                   nextId, regs, issued, expired, env>>

\* The seeded database under any environment envSchema accepts.
InitEnv ==
    /\ SeedData
    /\ env \in {e \in [JWT_SECRET : Secrets, JWT_REFRESH_SECRET : Secrets] : envSchema(e)}

\* Clients log in, log out, refresh and call guarded routes with any token they
\* hold, while users are deactivated and tokens expire.
NextEnv ==
    \/ \E body \in LoginAttempts : Login(body)
    \/ \E body \in RefreshBodies : Refresh(body)
    \/ \E t \in issued : Authenticate(t)
    \/ \E t \in issued : TokenExpires(t)
    \/ Logout
    \/ \E v \in {1, 2} : Deactivate(v)

SpecEnv == InitEnv /\ [][NextEnv]_vars

\* generateAccessToken signs with expiresIn '15m', generateRefreshToken with '7d'
AccessTokens == {t \in issued : t.claims.exp = "15m"}
RefreshTokens == {t \in issued : t.claims.exp = "7d"}

\* C28: the token kinds are not interchangeable: a refresh token presented as the
\* bearer token of a guarded route is answered Unauthorized, and an access token
\* sent to POST /auth/refresh is answered Unauthorized, under every configuration
\* of JWT_SECRET and JWT_REFRESH_SECRET that the environment schema accepts.
C28_TokenKindsNotInterchangeable ==
    /\ (resp.op = "authenticate" /\ resp.body.token \in RefreshTokens)
          => resp.status = UnauthorizedStatus
    /\ ( /\ resp.op = "auth.refresh"
         /\ Has(resp.body, "refreshToken")
         /\ resp.body.refreshToken \in AccessTokens )
          => resp.status = UnauthorizedStatus

(* --------------------------- string arrays ---------------------------- *)
\* File names: a plain one, one with a comma, one with a double quote, one with an
\* apostrophe, and the empty string.
FileNames == {<<"a">>, <<"a", ",", "b">>, <<"a", "\"">>, <<"a", "'">>, << >>}

AttachmentBodies ==
    {[customerId |-> 1, type |-> "CALL", body |-> "Called", attachments |-> arr] :
        arr \in UNION {[1..n -> FileNames] : n \in 0..MaxAttachments}}

\* The admin of the seeded organization stores entries with attachments and reads
\* them.
NextArray ==
    \/ \E body \in AttachmentBodies : ContactCreate(1, body)
    \/ \E id \in ContactIds : ContactGetById(1, id)
    \/ \E id \in ContactIds : ContactDelete(1, id)

SpecArray == Init /\ [][NextArray]_vars

\* C29: a string-array column round-trips: the attachments a contact-history
\* entry is created with are the attachments the create response and every later
\* read of the entry return, whatever characters the elements hold.
C29_ArrayRoundTrip ==
    /\ (resp.op = "contact.create" /\ resp.status = CreatedStatus)
          => \A d \in resp.data : d.attachments = resp.body.attachments
    /\ (resp.op = "contact.getById" /\ resp.status = OkStatus)
          => \A d \in resp.data : d.attachments = contacts[resp.id].attachments

=============================================================================
